---------------------------- MODULE Spec2Model ----------------------------
(***************************************************************************)
(* A model of the D38999 part-number builder (src/d38999.py) and of the    *)
(* D38999 part-number parser (src/d38999_specs.py).                        *)
(*                                                                         *)
(* Conventions of the model:                                               *)
(*  - a Python str is a TLA+ string; slicing, upper(), replace(), split()  *)
(*    and int() are computed character by character;                       *)
(*  - a Python dict is a function whose DOMAIN is the set of its keys, so  *)
(*    "key in d" is  key \in DOMAIN d  and d.get(k, v) is Get(d, k, v);    *)
(*  - None is the string "None"; an object that may be None is kept in a   *)
(*    one-field wrapper so it is never compared with a value of another    *)
(*    type;                                                                *)
(*  - inch dimensions are kept in thousandths of an inch, millimetre       *)
(*    radii in tenths of a millimetre, angles in tenths of a degree; the   *)
(*    degree sign of the temperature strings is written "deg".             *)
(***************************************************************************)
EXTENDS Integers, Sequences, FiniteSets, TLC

VARIABLES
    codes,            \* the six arguments of the last constructor call
    part,             \* the D38999PartNumber that call built, if it built one
    raised,           \* the exception that call raised, if it raised one
    props,            \* the last return value of get_properties
    svg,              \* the last return value of generate_svg
    attributes,       \* the last document built by _create_attributes_json
    built,            \* the last return value of build_part_number
    pc,               \* generate_part_numbers: "idle", "loop" or "done"
    args,             \* generate_part_numbers: its six argument lists
    combinations,     \* generate_part_numbers: the tuples still to be visited
    generated_parts,  \* D38999PartNumberGenerator.generated_parts
    invalid_parts,    \* generate_part_numbers: its local list of rejects
    returned,         \* generate_part_numbers: its return value
    stdout,           \* generate_part_numbers: the lines it printed
    filtered,         \* the last return value of filter_parts
    summary,          \* the last return value of get_summary
    part_number,      \* parse_part_number: its argument
    source,           \* the descriptor part_number was built from, or None
    parsed,           \* parse_part_number: its outcome
    contacts,         \* _get_assembly_tooling: its contacts argument
    tooling_series,   \* _get_assembly_tooling: its series_code argument
    tooling,          \* _get_assembly_tooling: its return value
    tables,           \* the class attributes of D38999PartNumber, as they are now
    fs,               \* the paths that exist under base_dir
    dir_pc,           \* create_directories: "idle", "loop" or "done"
    dir_base,         \* create_directories: base_path
    dir_subdirs,      \* create_directories: subdirs
    dir_queue,        \* create_directories: the parts still to be visited
    stats,            \* create_directories: its stats dict
    counted,          \* the part directories counted created or already_existed so far
    content,          \* the text of the drawing files under base_dir
    touched,          \* the paths the last call on the generator made or wrote
    prev,             \* the last finished create_directories call
    svg_report        \* generate_svgs: the counts it printed

dvars == <<codes, part, raised, props, svg, attributes, built>>
gvars == <<pc, args, combinations, generated_parts, invalid_parts, returned, stdout,
           filtered, summary>>
pvars == <<part_number, source, parsed, contacts, tooling_series, tooling>>
cvars == <<tables>>
fvars == <<fs, dir_pc, dir_base, dir_subdirs, dir_queue, stats, counted,
           content, touched, prev, svg_report>>
vars == <<dvars, gvars, pvars, cvars, fvars>>

---------------------------------------------------------------------------
(* Bounds of the model *)

\* longest list handed to generate_part_numbers for the series and
\* polarization axes
MaxListLen == 2

\* longest contact list handed to _get_assembly_tooling
MaxContacts == 5

---------------------------------------------------------------------------
(* Python values and string primitives *)

None == "None"

\* {} : the dict without keys
EmptyDict == [k \in {} |-> None]

\* d.get(k, default)
Get(d, k, default) == IF k \in DOMAIN d THEN d[k] ELSE default

Min(a, b) == IF a < b THEN a ELSE b

\* s[a:b], 0-based and clamped to the string like a Python slice (0 <= a)
Slice(s, a, b) == SubSeq(s, Min(a, Len(s)) + 1, Min(b, Len(s)))

\* s[i] for 0 <= i < len(s)
CharAt(s, i) == SubSeq(s, i + 1, i + 1)

UpperAlphabet == "ABCDEFGHIJKLMNOPQRSTUVWXYZ"
LowerAlphabet == "abcdefghijklmnopqrstuvwxyz"
Digits == "0123456789"

\* the 1-based index of character c in string s, 0 when absent
RECURSIVE IndexFrom(_, _, _)
IndexFrom(s, c, i) ==
    IF i > Len(s) THEN 0
    ELSE IF SubSeq(s, i, i) = c THEN i
    ELSE IndexFrom(s, c, i + 1)

IndexOf(s, c) == IndexFrom(s, c, 1)

\* chr(n) for the capital letters
Chr(n) == SubSeq(UpperAlphabet, n - 64, n - 64)

UpperChar(c) ==
    IF IndexOf(LowerAlphabet, c) = 0 THEN c
    ELSE SubSeq(UpperAlphabet, IndexOf(LowerAlphabet, c), IndexOf(LowerAlphabet, c))

\* s.upper()
RECURSIVE Upper(_)
Upper(s) ==
    IF Len(s) = 0 THEN ""
    ELSE UpperChar(SubSeq(s, 1, 1)) \o Upper(SubSeq(s, 2, Len(s)))

\* s.replace(" ", "")
RECURSIVE RemoveSpaces(_)
RemoveSpaces(s) ==
    IF Len(s) = 0 THEN ""
    ELSE (IF SubSeq(s, 1, 1) = " " THEN "" ELSE SubSeq(s, 1, 1))
             \o RemoveSpaces(SubSeq(s, 2, Len(s)))

\* s.split('/') : the list of the pieces between the separators
RECURSIVE SplitFrom(_, _, _)
SplitFrom(s, i, piece) ==
    IF i > Len(s) THEN <<piece>>
    ELSE IF SubSeq(s, i, i) = "/" THEN <<piece>> \o SplitFrom(s, i + 1, "")
    ELSE SplitFrom(s, i + 1, piece \o SubSeq(s, i, i))

Split(s) == SplitFrom(s, 1, "")

\* s.startswith(prefix)
StartsWith(s, prefix) == Len(s) >= Len(prefix) /\ SubSeq(s, 1, Len(prefix)) = prefix

\* s.replace('/', '-')
RECURSIVE SlashToDash(_)
SlashToDash(s) ==
    IF Len(s) = 0 THEN ""
    ELSE (IF SubSeq(s, 1, 1) = "/" THEN "-" ELSE SubSeq(s, 1, 1))
             \o SlashToDash(SubSeq(s, 2, Len(s)))

IsDigit(c) == IndexOf(Digits, c) # 0

DigitValue(c) == IndexOf(Digits, c) - 1

\* whether int(s) returns, for a string of at most two characters without
\* white space: digits with an optional sign in front
IntAccepts(s) ==
    \/ Len(s) = 1 /\ IsDigit(s)
    \/ Len(s) = 2 /\ IsDigit(CharAt(s, 1))
                  /\ (IsDigit(CharAt(s, 0)) \/ CharAt(s, 0) \in {"+", "-"})

\* int(s) where IntAccepts(s)
IntOf(s) ==
    IF Len(s) = 1 THEN DigitValue(s)
    ELSE IF CharAt(s, 0) = "-" THEN 0 - DigitValue(CharAt(s, 1))
    ELSE IF CharAt(s, 0) = "+" THEN DigitValue(CharAt(s, 1))
    ELSE 10 * DigitValue(CharAt(s, 0)) + DigitValue(CharAt(s, 1))

\* all lists over S of length 0..n
Lists(S, n) == UNION {[1..k -> S] : k \in 0..n}

---------------------------------------------------------------------------
(* The reference tables of D38999PartNumber *)

SERIES_III ==
       "26" :> "Plug with accessory threads"
    @@ "24" :> "Jam-nut mount receptacle"
    @@ "20" :> "Wall mount receptacle"
    @@ "21" :> "Box mount receptacle (hermetic)"
    @@ "25" :> "Solder mount receptacle (hermetic)"
    @@ "23" :> "Jam-nut mount receptacle (hermetic)"
    @@ "27" :> "Weld mount receptacle (hermetic)"

SERIES_IV ==
       "46" :> "Plug without EMI ground spring"
    @@ "47" :> "Plug with EMI ground spring"
    @@ "40" :> "Wall mount receptacle"
    @@ "42" :> "Box mount receptacle"
    @@ "44" :> "Jam-nut mount receptacle"
    @@ "49" :> "In-line receptacle"
    @@ "41" :> "Box mount receptacle (hermetic)"
    @@ "43" :> "Jam-nut mount receptacle (hermetic)"
    @@ "45" :> "Solder mount receptacle (hermetic)"
    @@ "48" :> "Weld mount receptacle (hermetic)"

ENV_CLASSES ==
       "F" :> [name |-> "Electroless Nickel", material |-> "Aluminum",
                temp_range |-> "-65degC to +200degC", salt_spray |-> "48 hour",
                conductive |-> TRUE]
    @@ "G" :> [name |-> "Space-Grade Electroless Nickel", material |-> "Aluminum",
                temp_range |-> "-65degC to +200degC", salt_spray |-> "48 hour",
                conductive |-> TRUE, space_grade |-> TRUE]
    @@ "W" :> [name |-> "Cadmium Olive Drab over Electroless Nickel", material |-> "Aluminum",
                temp_range |-> "-65degC to +175degC", salt_spray |-> "500 hour",
                conductive |-> TRUE]
    @@ "T" :> [name |-> "Nickel-PTFE", material |-> "Aluminum",
                temp_range |-> "-65degC to +175degC", conductive |-> TRUE]
    @@ "J" :> [name |-> "Cadmium Olive Drab (Composite)", material |-> "Composite",
                temp_range |-> "-65degC to +175degC", salt_spray |-> "500 hour",
                conductive |-> TRUE]
    @@ "M" :> [name |-> "Electroless Nickel (Composite)", material |-> "Composite",
                temp_range |-> "-65degC to +200degC", salt_spray |-> "500 hour",
                conductive |-> TRUE]
    @@ "K" :> [name |-> "Passivate (Stainless)", material |-> "Stainless Steel",
                conductive |-> TRUE]
    @@ "S" :> [name |-> "Electrodeposited Nickel (Stainless)", material |-> "Stainless Steel",
                conductive |-> TRUE]
    @@ "V" :> [name |-> "Tin-Zinc over Electroless Nickel", material |-> "Aluminum",
                conductive |-> TRUE]
    @@ "Z" :> [name |-> "Zinc Nickel Black", material |-> "Aluminum", conductive |-> TRUE]
    @@ "AA" :> [name |-> "Tri-Nickel Alloy", material |-> "Aluminum", conductive |-> TRUE]

\* a hermetic table that also holds the class code F
HERMETIC_CLASSES_WithF ==
       "F" :> [name |-> "Passivate (Hermetic)", material |-> "Stainless Steel", conductive |-> TRUE]
    @@ "N" :> [name |-> "Electrodeposited Nickel (Hermetic)", material |-> "Stainless Steel",
                salt_spray |-> "500 hour", conductive |-> TRUE]

HERMETIC_CLASSES ==
       "Y" :> [name |-> "Passivate (Hermetic)", material |-> "Stainless Steel", conductive |-> TRUE]
    @@ "N" :> [name |-> "Electrodeposited Nickel (Hermetic)", material |-> "Stainless Steel",
                salt_spray |-> "500 hour", conductive |-> TRUE]
    @@ "H" :> [name |-> "Passivate Space-Grade (Hermetic)", material |-> "Stainless Steel",
                conductive |-> TRUE, space_grade |-> TRUE]

SHELL_SIZES ==
       "A" :> [size |-> 9, thread_size |-> "M12"]
    @@ "B" :> [size |-> 11, thread_size |-> "M15"]
    @@ "C" :> [size |-> 13, thread_size |-> "M18"]
    @@ "D" :> [size |-> 15, thread_size |-> "M22"]
    @@ "E" :> [size |-> 17, thread_size |-> "M25"]
    @@ "F" :> [size |-> 19, thread_size |-> "M28"]
    @@ "G" :> [size |-> 21, thread_size |-> "M31"]
    @@ "H" :> [size |-> 23, thread_size |-> "M34"]
    @@ "J" :> [size |-> 25, thread_size |-> "M37"]

CONTACT_TYPES ==
       "P" :> [type |-> "Pin", cycles |-> 500]
    @@ "S" :> [type |-> "Socket", cycles |-> 500]
    @@ "H" :> [type |-> "Pin", cycles |-> 1500]
    @@ "J" :> [type |-> "Socket", cycles |-> 1500]
    @@ "A" :> [type |-> "Pin insert, less standard contacts"]
    @@ "B" :> [type |-> "Socket insert, less standard contacts"]

POLARIZATIONS ==
       "N" :> "Normal (Master key)"
    @@ "A" :> "Alternate A"
    @@ "B" :> "Alternate B"
    @@ "C" :> "Alternate C"
    @@ "D" :> "Alternate D"
    @@ "E" :> "Alternate E"
    @@ "K" :> "Alternate K (Series IV)"
    @@ "L" :> "Alternate L (Series IV)"
    @@ "M" :> "Alternate M (Series IV)"
    @@ "R" :> "Alternate R (Series IV)"

\* the position list of arrangement A35
A35_positions ==
    << [label |-> "A", angle |-> 0, radius |-> 0],
       [label |-> "B", angle |-> 600, radius |-> 25],
       [label |-> "C", angle |-> 1200, radius |-> 25],
       [label |-> "D", angle |-> 1800, radius |-> 25],
       [label |-> "E", angle |-> 2400, radius |-> 25],
       [label |-> "F", angle |-> 3000, radius |-> 25] >>

\* a position list of B35 whose outer ring starts at chr(71), the last label
\* of the inner ring
B35_positions_RingsOverlap ==
    << [label |-> "A", angle |-> 0, radius |-> 0] >>
    \o [j \in 1..6 |-> [label |-> Chr(66 + (j - 1)), angle |-> (j - 1) * 600, radius |-> 25]]
    \o [j \in 1..6 |-> [label |-> Chr(71 + (j - 1)), angle |-> 300 + (j - 1) * 600, radius |-> 45]]

\* a position list of B35 without the outer ring
B35_positions_InnerRingOnly ==
    << [label |-> "A", angle |-> 0, radius |-> 0] >>
    \o [j \in 1..6 |-> [label |-> Chr(66 + (j - 1)), angle |-> (j - 1) * 600, radius |-> 25]]

\* the position list of arrangement B35: the centre contact, then
\* [chr(66+i) at i*60 for i in range(6)], then [chr(72+i) at 30+i*60 ...]
B35_positions ==
    << [label |-> "A", angle |-> 0, radius |-> 0] >>
    \o [j \in 1..6 |-> [label |-> Chr(66 + (j - 1)), angle |-> (j - 1) * 600, radius |-> 25]]
    \o [j \in 1..6 |-> [label |-> Chr(72 + (j - 1)), angle |-> 300 + (j - 1) * 600, radius |-> 45]]

INSERT_ARRANGEMENTS ==
       "A35" :> [contacts |-> 6, size |-> "22D", service_rating |-> "M",
                  positions |-> A35_positions]
    @@ "B35" :> [contacts |-> 13, size |-> "22D", service_rating |-> "M",
                  positions |-> B35_positions]
    @@ "C35" :> [contacts |-> 22, size |-> "22D", service_rating |-> "M"]
    @@ "D35" :> [contacts |-> 37, size |-> "22D", service_rating |-> "M"]
    @@ "E35" :> [contacts |-> 55, size |-> "22D", service_rating |-> "M"]
    @@ "F35" :> [contacts |-> 66, size |-> "22D", service_rating |-> "M"]
    @@ "F45" :> [contacts |-> 67, size |-> "22D", service_rating |-> "M"]
    @@ "G35" :> [contacts |-> 79, size |-> "22D", service_rating |-> "M"]
    @@ "H35" :> [contacts |-> 100, size |-> "22D", service_rating |-> "M"]
    @@ "J35" :> [contacts |-> 128, size |-> "22D", service_rating |-> "M"]
    @@ "A98" :> [contacts |-> 3, size |-> "20", service_rating |-> "I"]
    @@ "B4" :> [contacts |-> 4, size |-> "20", service_rating |-> "I"]
    @@ "B5" :> [contacts |-> 5, size |-> "20", service_rating |-> "I"]
    @@ "B98" :> [contacts |-> 6, size |-> "20", service_rating |-> "I"]
    @@ "B99" :> [contacts |-> 7, size |-> "20", service_rating |-> "I"]
    @@ "C8" :> [contacts |-> 8, size |-> "20", service_rating |-> "I"]
    @@ "C98" :> [contacts |-> 10, size |-> "20", service_rating |-> "I"]
    @@ "D18" :> [contacts |-> 18, size |-> "20", service_rating |-> "I"]
    @@ "D19" :> [contacts |-> 19, size |-> "20", service_rating |-> "I"]
    @@ "E26" :> [contacts |-> 26, size |-> "20", service_rating |-> "I"]
    @@ "F32" :> [contacts |-> 32, size |-> "20", service_rating |-> "I"]
    @@ "G24" :> [contacts |-> 24, size |-> "20", service_rating |-> "I"]
    @@ "G25" :> [contacts |-> 25, size |-> "20", service_rating |-> "I"]
    @@ "G27" :> [contacts |-> 27, size |-> "20", service_rating |-> "I"]
    @@ "G41" :> [contacts |-> 41, size |-> "20", service_rating |-> "I"]
    @@ "H32" :> [contacts |-> 32, size |-> "20", service_rating |-> "I"]
    @@ "H34" :> [contacts |-> 34, size |-> "20", service_rating |-> "I"]
    @@ "H36" :> [contacts |-> 36, size |-> "20", service_rating |-> "I"]
    @@ "H53" :> [contacts |-> 53, size |-> "20", service_rating |-> "I"]
    @@ "H55" :> [contacts |-> 55, size |-> "20", service_rating |-> "I"]
    @@ "J61" :> [contacts |-> 61, size |-> "20", service_rating |-> "I"]
    @@ "B2" :> [contacts |-> 2, size |-> "16", service_rating |-> "I"]
    @@ "C4" :> [contacts |-> 4, size |-> "16", service_rating |-> "I"]
    @@ "D5" :> [contacts |-> 5, size |-> "16", service_rating |-> "II"]
    @@ "E8" :> [contacts |-> 8, size |-> "16", service_rating |-> "II"]
    @@ "F11" :> [contacts |-> 11, size |-> "16", service_rating |-> "II"]
    @@ "G16" :> [contacts |-> 16, size |-> "16", service_rating |-> "II"]
    @@ "H21" :> [contacts |-> 21, size |-> "16", service_rating |-> "II"]
    @@ "H97" :> [contacts |-> 16, size |-> "16", service_rating |-> "I"]
    @@ "H99" :> [contacts |-> 11, size |-> "16", service_rating |-> "II"]
    @@ "J29" :> [contacts |-> 29, size |-> "16", service_rating |-> "I"]
    @@ "J37" :> [contacts |-> 37, size |-> "16", service_rating |-> "II"]
    @@ "E6" :> [contacts |-> 6, size |-> "12", service_rating |-> "I"]
    @@ "G11" :> [contacts |-> 11, size |-> "12", service_rating |-> "I"]
    @@ "J19" :> [contacts |-> 19, size |-> "12", service_rating |-> "I"]

SERIES_III_DIMENSIONS ==
       "A" :> [shell_dia |-> 858, coupling_dia |-> 732, thread |-> "M12", panel_cutout |-> 693]
    @@ "B" :> [shell_dia |-> 984, coupling_dia |-> 839, thread |-> "M15", panel_cutout |-> 825]
    @@ "C" :> [shell_dia |-> 1157, coupling_dia |-> 1008, thread |-> "M18", panel_cutout |-> 1010]
    @@ "D" :> [shell_dia |-> 1280, coupling_dia |-> 1138, thread |-> "M22", panel_cutout |-> 1135]
    @@ "E" :> [shell_dia |-> 1406, coupling_dia |-> 1276, thread |-> "M25", panel_cutout |-> 1260]
    @@ "F" :> [shell_dia |-> 1516, coupling_dia |-> 1382, thread |-> "M28", panel_cutout |-> 1385]
    @@ "G" :> [shell_dia |-> 1642, coupling_dia |-> 1508, thread |-> "M31", panel_cutout |-> 1510]
    @@ "H" :> [shell_dia |-> 1768, coupling_dia |-> 1626, thread |-> "M34", panel_cutout |-> 1635]
    @@ "J" :> [shell_dia |-> 1890, coupling_dia |-> 1752, thread |-> "M37", panel_cutout |-> 1760]

SERIES_IV_DIMENSIONS ==
       "B" :> [shell_dia |-> 781, thread |-> "M15", panel_cutout_wall |-> 625,
                panel_cutout_jam |-> 825]
    @@ "C" :> [shell_dia |-> 921, thread |-> "M18", panel_cutout_wall |-> 750,
                panel_cutout_jam |-> 1010]
    @@ "D" :> [shell_dia |-> 1047, thread |-> "M22", panel_cutout_wall |-> 906,
                panel_cutout_jam |-> 1135]
    @@ "E" :> [shell_dia |-> 1218, thread |-> "M25", panel_cutout_wall |-> 1016,
                panel_cutout_jam |-> 1260]
    @@ "F" :> [shell_dia |-> 1296, thread |-> "M28", panel_cutout_wall |-> 1142,
                panel_cutout_jam |-> 1385]
    @@ "G" :> [shell_dia |-> 1421, thread |-> "M31", panel_cutout_wall |-> 1266,
                panel_cutout_jam |-> 1510]
    @@ "H" :> [shell_dia |-> 1546, thread |-> "M34", panel_cutout_wall |-> 1375,
                panel_cutout_jam |-> 1635]
    @@ "J" :> [shell_dia |-> 1672, thread |-> "M37", panel_cutout_wall |-> 1484,
                panel_cutout_jam |-> 1760]

CRIMP_TOOLS ==
       "22D" :> [crimper |-> "M22520/2-01 (Glenair 809-015)",
                  positioner_pin |-> "M22520/2-09 (K42 Daniels)",
                  positioner_socket |-> "M22520/2-07 (K40 Daniels)",
                  insertion_tool |-> "M81969/14-01 (Glenair 859-020)",
                  extraction_tool |-> "M81969/14-01 (Glenair 859-020)"]
    @@ "20" :> [crimper |-> "M22520/2-01 (Glenair 809-015)",
                 positioner |-> "M22520/2-10 (K43 Daniels)",
                 insertion_tool |-> "M81969/14-10 (Glenair 809-207)",
                 extraction_tool |-> "M81969/14-10 (Glenair 809-207)"]
    @@ "16" :> [crimper |-> "M22520/1-01 (Glenair 809-136)",
                 positioner |-> "M22520/1-04 (Glenair 809-137)",
                 insertion_tool |-> "M81969/14-03 (Glenair 809-131)",
                 extraction_tool |-> "M81969/14-03 (Glenair 809-131)"]
    @@ "12" :> [crimper |-> "M22520/1-01 (Glenair 809-136)",
                 positioner |-> "M22520/1-04 (Glenair 809-137)",
                 insertion_tool |-> "M81969/14-04 (Glenair 809-132)",
                 extraction_tool |-> "M81969/14-04 (Glenair 809-132)"]
    @@ "8_COAX" :> [crimper |-> "M22520/2-01 (Glenair 809-015)",
                     positioner |-> "M22520/2-31 (K-406 Daniels)",
                     shield_crimper |-> "M22520/5-01 (Glenair 809-129)",
                     shield_die |-> "M22520/5-05 (Glenair 859-051)"]
    @@ "12_COAX" :> [crimper |-> "M22520/2-01 (Glenair 809-015)",
                      positioner |-> "M22520/2-34 (K-323 Daniels)",
                      shield_crimper |-> "M22520/31-01 (Glenair 809-133)",
                      shield_positioner |-> "M22520/31-02 (Glenair 809-134)"]

---------------------------------------------------------------------------
(* Numbers in text, and the trigonometry of the drawings *)

\* str(n) of a natural number
RECURSIVE NatToStr(_)
NatToStr(n) ==
    IF n < 10 THEN SubSeq(Digits, n + 1, n + 1)
    ELSE NatToStr(n \div 10) \o SubSeq(Digits, (n % 10) + 1, (n % 10) + 1)

IntToStr(n) == IF n < 0 THEN "-" \o NatToStr(0 - n) ELSE NatToStr(n)

\* f"{v:.1f}" of the value t/10
Fmt1(t) ==
    IF t < 0 THEN "-" \o NatToStr((0 - t) \div 10) \o "." \o NatToStr((0 - t) % 10)
    ELSE NatToStr(t \div 10) \o "." \o NatToStr(t % 10)

\* the decimal text of the value m/1000 without trailing zeros of the
\* fraction, one fraction digit at least (the digits a float's repr adds
\* beyond the exact decimal value are not modelled)
FmtMilli(m) ==
    LET a == IF m < 0 THEN 0 - m ELSE m
        f == a % 1000
        frac == IF f % 100 = 0 THEN NatToStr(f \div 100)
                ELSE IF f % 10 = 0
                     THEN (IF f < 100 THEN "0" ELSE "") \o NatToStr(f \div 10)
                ELSE (IF f < 10 THEN "00" ELSE IF f < 100 THEN "0" ELSE "") \o NatToStr(f)
    IN (IF m < 0 THEN "-" ELSE "") \o NatToStr(a \div 1000) \o "." \o frac

\* n/d rounded to the nearest integer (d > 0)
RoundDiv(n, d) ==
    IF n >= 0 THEN (2 * n + d) \div (2 * d) ELSE 0 - ((2 * (0 - n) + d) \div (2 * d))

\* 10^5 * cos of an angle of the first quadrant, in tenths of a degree;
\* the catalogs hold multiples of 22.5 and of 30 degrees only
CosFirstQuadrant(a) ==
    CASE a = 0   -> 100000
      [] a = 225 -> 92388
      [] a = 300 -> 86603
      [] a = 450 -> 70711
      [] a = 600 -> 50000
      [] a = 675 -> 38268
      [] a = 900 -> 0

\* 10^5 * math.cos of an angle in tenths of a degree
Cos(a) ==
    LET r == a % 3600
    IN IF r <= 900 THEN CosFirstQuadrant(r)
       ELSE IF r <= 1800 THEN 0 - CosFirstQuadrant(1800 - r)
       ELSE IF r <= 2700 THEN 0 - CosFirstQuadrant(r - 1800)
       ELSE CosFirstQuadrant(3600 - r)

\* 10^5 * math.sin of an angle in tenths of a degree
Sin(a) == Cos(a - 900)

---------------------------------------------------------------------------
(* class D38999PartNumber *)

\* the object left by a constructor call that raised: there is none
NoPart == EmptyDict

\* no exception was raised
NoException == [type |-> "None", message |-> ""]

\* raise ValueError(message)
ValueError(message) == [type |-> "ValueError", message |-> message]

\* the IndexError of an index past the end of a str
IndexError == [type |-> "IndexError", message |-> "string index out of range"]

\* the class attributes of D38999PartNumber as the class body sets them
ClassTables ==
    [SERIES_III |-> SERIES_III, SERIES_IV |-> SERIES_IV,
     ENV_CLASSES |-> ENV_CLASSES, HERMETIC_CLASSES |-> HERMETIC_CLASSES,
     SHELL_SIZES |-> SHELL_SIZES, CONTACT_TYPES |-> CONTACT_TYPES,
     POLARIZATIONS |-> POLARIZATIONS, INSERT_ARRANGEMENTS |-> INSERT_ARRANGEMENTS,
     SERIES_III_DIMENSIONS |-> SERIES_III_DIMENSIONS,
     SERIES_IV_DIMENSIONS |-> SERIES_IV_DIMENSIONS,
     CRIMP_TOOLS |-> CRIMP_TOOLS]

\* the constructor without its SERIES_IV branch
D38999PartNumber_NoSeriesIV(series_code, class_code, shell_code, insert_arrangement, contact_type, polarization) ==
    IF series_code \in DOMAIN tables.SERIES_III
    THEN [exception |-> NoException,
          self |-> [series_code |-> series_code,
                    class_code |-> Upper(class_code),
                    shell_code |-> Upper(shell_code),
                    insert_arrangement |-> Upper(insert_arrangement),
                    contact_type |-> Upper(contact_type),
                    polarization |-> Upper(polarization),
                    series |-> "III", series_desc |-> tables.SERIES_III[series_code]]]
    ELSE [exception |-> ValueError("Invalid series code: " \o series_code),
          self |-> NoPart]

\* the constructor putting every known series code in family III
D38999PartNumber_OneFamily(series_code, class_code, shell_code, insert_arrangement, contact_type, polarization) ==
    IF series_code \in DOMAIN tables.SERIES_III \union DOMAIN tables.SERIES_IV
    THEN [exception |-> NoException,
          self |-> [series_code |-> series_code,
                    class_code |-> Upper(class_code),
                    shell_code |-> Upper(shell_code),
                    insert_arrangement |-> Upper(insert_arrangement),
                    contact_type |-> Upper(contact_type),
                    polarization |-> Upper(polarization),
                    series |-> "III",
                    series_desc |-> (tables.SERIES_III @@ tables.SERIES_IV)[series_code]]]
    ELSE [exception |-> ValueError("Invalid series code: " \o series_code),
          self |-> NoPart]

\* D38999PartNumber(series_code, ...): [exception, self]
D38999PartNumber(series_code, class_code, shell_code, insert_arrangement, contact_type, polarization) ==
    LET fields == [series_code |-> series_code,
                   class_code |-> Upper(class_code),
                   shell_code |-> Upper(shell_code),
                   insert_arrangement |-> Upper(insert_arrangement),
                   contact_type |-> Upper(contact_type),
                   polarization |-> Upper(polarization)]
    IN IF series_code \in DOMAIN tables.SERIES_III
       THEN [exception |-> NoException,
             self |-> fields @@ [series |-> "III", series_desc |-> tables.SERIES_III[series_code]]]
       ELSE IF series_code \in DOMAIN tables.SERIES_IV
       THEN [exception |-> NoException,
             self |-> fields @@ [series |-> "IV", series_desc |-> tables.SERIES_IV[series_code]]]
       ELSE [exception |-> ValueError("Invalid series code: " \o series_code),
             self |-> NoPart]

\* a part number built from the first character of the class code only
build_part_number_ClassInitial(self) ==
    "D38999/" \o self.series_code \o SubSeq(self.class_code, 1, 1) \o self.shell_code
              \o self.insert_arrangement \o self.contact_type \o self.polarization

build_part_number(self) ==
    "D38999/" \o self.series_code \o self.class_code \o self.shell_code
              \o self.insert_arrangement \o self.contact_type \o self.polarization

\* the keys get_properties adds for the class code
ClassProps(self) ==
    LET all_classes == tables.HERMETIC_CLASSES @@ tables.ENV_CLASSES
    IN IF self.class_code \in DOMAIN all_classes
       THEN LET class_info == all_classes[self.class_code]
            IN [class |-> self.class_code,
                finish |-> class_info.name,
                material |-> class_info.material,
                temperature_range |-> Get(class_info, "temp_range", "N/A"),
                salt_spray |-> Get(class_info, "salt_spray", "N/A"),
                conductive |-> Get(class_info, "conductive", FALSE),
                space_grade |-> Get(class_info, "space_grade", FALSE)]
       ELSE EmptyDict

\* the keys get_properties adds for the shell code
ShellProps(self) ==
    IF self.shell_code \in DOMAIN tables.SHELL_SIZES
    THEN LET shell_info == tables.SHELL_SIZES[self.shell_code]
         IN [shell_code |-> self.shell_code,
             shell_size |-> shell_info.size,
             thread_size |-> shell_info.thread_size]
    ELSE EmptyDict

\* the insert-arrangement keys added only for an arrangement with positions
InsertProps_LayoutOnly(self) ==
    [insert_arrangement |-> self.insert_arrangement]
    @@ (IF /\ self.insert_arrangement \in DOMAIN tables.INSERT_ARRANGEMENTS
           /\ "positions" \in DOMAIN tables.INSERT_ARRANGEMENTS[self.insert_arrangement]
        THEN LET insert_info == tables.INSERT_ARRANGEMENTS[self.insert_arrangement]
             IN [contact_count |-> insert_info.contacts,
                 contact_size |-> insert_info.size,
                 service_rating |-> insert_info.service_rating,
                 contact_positions |-> insert_info.positions]
        ELSE EmptyDict)

\* the insert-arrangement keys with the positions kept for the normal
\* polarization only
InsertProps_NormalKeyOnly(self) ==
    [insert_arrangement |-> self.insert_arrangement]
    @@ (IF self.insert_arrangement \in DOMAIN tables.INSERT_ARRANGEMENTS
        THEN LET insert_info == tables.INSERT_ARRANGEMENTS[self.insert_arrangement]
             IN [contact_count |-> insert_info.contacts,
                 contact_size |-> insert_info.size,
                 service_rating |-> insert_info.service_rating]
                @@ (IF "positions" \in DOMAIN insert_info /\ self.polarization = "N"
                    THEN [contact_positions |-> insert_info.positions]
                    ELSE EmptyDict)
        ELSE EmptyDict)

\* the keys get_properties adds for the insert arrangement
InsertProps(self) ==
    [insert_arrangement |-> self.insert_arrangement]
    @@ (IF self.insert_arrangement \in DOMAIN tables.INSERT_ARRANGEMENTS
        THEN LET insert_info == tables.INSERT_ARRANGEMENTS[self.insert_arrangement]
             IN [contact_count |-> insert_info.contacts,
                 contact_size |-> insert_info.size,
                 service_rating |-> insert_info.service_rating]
                @@ (IF "positions" \in DOMAIN insert_info
                    THEN [contact_positions |-> insert_info.positions]
                    ELSE EmptyDict)
        ELSE EmptyDict)

\* the keys get_properties adds for the contact type
ContactProps(self) ==
    IF self.contact_type \in DOMAIN tables.CONTACT_TYPES
    THEN LET contact_info == tables.CONTACT_TYPES[self.contact_type]
         IN [contact_gender |-> contact_info.type]
            @@ (IF "cycles" \in DOMAIN contact_info
                THEN [mating_cycles |-> contact_info.cycles]
                ELSE EmptyDict)
    ELSE EmptyDict

\* the key get_properties adds for the polarization
PolarizationProps(self) ==
    IF self.polarization \in DOMAIN tables.POLARIZATIONS
    THEN [polarization |-> tables.POLARIZATIONS[self.polarization]]
    ELSE EmptyDict

\* the coupling type of series IV given to every part
CouplingProps_BreechLock(self) ==
    [coupling_type |-> "90deg breech-lock",
     shielding |-> "65dB minimum at 10 GHz", sealing |-> "IP67"]

\* the coupling type and the two fixed performance figures
CouplingProps(self) ==
    (IF self.series = "III" THEN [coupling_type |-> "Triple-start thread"]
     ELSE IF self.series = "IV" THEN [coupling_type |-> "90deg breech-lock"]
     ELSE EmptyDict)
    @@ [shielding |-> "65dB minimum at 10 GHz", sealing |-> "IP67"]

\* the dimensions block looked up by shell code in one table for both
\* families
DimensionProps_OneTable(self) ==
    IF self.shell_code \in DOMAIN tables.SERIES_III_DIMENSIONS
    THEN [dimensions |-> tables.SERIES_III_DIMENSIONS[self.shell_code]]
    ELSE EmptyDict

\* the dimensions block, from the table of the part's series family
DimensionProps(self) ==
    IF self.series = "III" /\ self.shell_code \in DOMAIN tables.SERIES_III_DIMENSIONS
    THEN [dimensions |-> tables.SERIES_III_DIMENSIONS[self.shell_code]]
    ELSE IF self.series = "IV" /\ self.shell_code \in DOMAIN tables.SERIES_IV_DIMENSIONS
    THEN [dimensions |-> tables.SERIES_IV_DIMENSIONS[self.shell_code]]
    ELSE EmptyDict

\* a tooling block of the crimper and the extraction tool only
ToolingProps_PairOnly(self) ==
    IF self.insert_arrangement \in DOMAIN tables.INSERT_ARRANGEMENTS
    THEN LET contact_size == tables.INSERT_ARRANGEMENTS[self.insert_arrangement].size
         IN IF contact_size \in DOMAIN tables.CRIMP_TOOLS
            THEN [tooling |-> [crimper |-> tables.CRIMP_TOOLS[contact_size].crimper,
                               extraction_tool |-> tables.CRIMP_TOOLS[contact_size].extraction_tool]]
            ELSE EmptyDict
    ELSE EmptyDict

\* the tooling block, from the arrangement's contact size
ToolingProps(self) ==
    IF self.insert_arrangement \in DOMAIN tables.INSERT_ARRANGEMENTS
    THEN LET contact_size == tables.INSERT_ARRANGEMENTS[self.insert_arrangement].size
         IN IF contact_size \in DOMAIN tables.CRIMP_TOOLS
            THEN [tooling |-> tables.CRIMP_TOOLS[contact_size]]
            ELSE EmptyDict
    ELSE EmptyDict

\* get_properties leaving the polarization out once a drawing was made
get_properties_AfterDrawing(self) ==
    [part_number |-> build_part_number(self),
     series |-> self.series,
     series_description |-> self.series_desc,
     specification |-> "MIL-DTL-38999"]
    @@ ClassProps(self) @@ ShellProps(self) @@ InsertProps(self)
    @@ ContactProps(self)
    @@ (IF svg = <<>> THEN PolarizationProps(self) ELSE EmptyDict)
    @@ CouplingProps(self) @@ DimensionProps(self) @@ ToolingProps(self)

\* get_properties giving up at the first lookup that misses
get_properties_StopsAtMiss(self) ==
    LET base == [part_number |-> build_part_number(self),
                 series |-> self.series,
                 series_description |-> self.series_desc,
                 specification |-> "MIL-DTL-38999"]
    IN IF self.class_code \notin DOMAIN (tables.HERMETIC_CLASSES @@ tables.ENV_CLASSES)
       THEN base
       ELSE IF self.shell_code \notin DOMAIN tables.SHELL_SIZES
       THEN base @@ ClassProps(self)
       ELSE base @@ ClassProps(self) @@ ShellProps(self) @@ InsertProps(self)
            @@ ContactProps(self) @@ PolarizationProps(self) @@ CouplingProps(self)
            @@ DimensionProps(self) @@ ToolingProps(self)

get_properties(self) ==
    [part_number |-> build_part_number(self),
     series |-> self.series,
     series_description |-> self.series_desc,
     specification |-> "MIL-DTL-38999"]
    @@ ClassProps(self) @@ ShellProps(self) @@ InsertProps(self)
    @@ ContactProps(self) @@ PolarizationProps(self) @@ CouplingProps(self)
    @@ DimensionProps(self) @@ ToolingProps(self)

\* the message generate_svg returns in place of a drawing
NoPositionData == <<"SVG generation requires contact position data">>

\* contact_diameters, in tenths of a millimetre
contact_diameters == ("22D" :> 13) @@ ("20" :> 15) @@ ("16" :> 20) @@ ("12" :> 28)

\* the two lines generate_svg draws for one contact: its circle and its
\* label; centre 200, scale 20 pixels per millimetre, coordinates in
\* tenths of a pixel
ContactLines(pos, contact_dia) ==
    LET radius_pixels == pos.radius * 2
        x == 2000 + RoundDiv(10 * radius_pixels * Cos(pos.angle - 900), 100000)
        y == 2000 + RoundDiv(10 * radius_pixels * Sin(pos.angle - 900), 100000)
    IN << "  <circle cx=\"" \o Fmt1(x) \o "\" cy=\"" \o Fmt1(y) \o "\" r=\""
              \o Fmt1(contact_dia \div 2) \o "\" class=\"contact\"/>",
          "  <text x=\"" \o Fmt1(x) \o "\" y=\"" \o Fmt1(y + 30)
              \o "\" class=\"label\">" \o pos.label \o "</text>" >>

\* the lines of all contacts, in the order of the position list
RECURSIVE AllContactLines(_, _)
AllContactLines(positions, contact_dia) ==
    IF positions = <<>> THEN <<>>
    ELSE ContactLines(Head(positions), contact_dia)
             \o AllContactLines(Tail(positions), contact_dia)

\* the drawing generate_svg builds from props that hold contact positions:
\* its text as the list of its lines (the style sheet and the comments are
\* constant text; the style sheet stands as one line)
Drawing(p) ==
            LET contact_size == Get(p, "contact_size", "20")
                \* contact_diameters.get(contact_size, 1.5) * scale, tenths of a pixel
                contact_dia == Get(contact_diameters, contact_size, 15) * 20
                \* thousandths of a pixel
                shell_radius == IF "dimensions" \in DOMAIN p
                                THEN p.dimensions.shell_dia * 254
                                ELSE 50000
                radius_text == IF "dimensions" \in DOMAIN p THEN FmtMilli(shell_radius)
                               ELSE "50"
                keyway_y == IF "dimensions" \in DOMAIN p
                            THEN FmtMilli(200000 - shell_radius)
                            ELSE "150.0"
            IN << "<?xml version=\"1.0\" encoding=\"UTF-8\"?>",
                  "<svg width=\"400\" height=\"400\" xmlns=\"http://www.w3.org/2000/svg\">",
                  "  <defs><style>.shell .contact .label .title .keyway</style></defs>",
                  "  <text x=\"200.0\" y=\"20\" class=\"title\" text-anchor=\"middle\">"
                      \o p.part_number \o "</text>",
                  "  <text x=\"200.0\" y=\"35\" class=\"label\" text-anchor=\"middle\">",
                  "    " \o IntToStr(Get(p, "contact_count", 0)) \o " contacts, Size #" \o contact_size,
                  "  </text>",
                  "  <circle cx=\"200.0\" cy=\"200.0\" r=\"" \o radius_text
                      \o "\" class=\"shell\"/>",
                  "  <rect x=\"197.0\" y=\"" \o keyway_y
                      \o "\" width=\"6\" height=\"15\" class=\"keyway\"/>" >>
               \o AllContactLines(p.contact_positions, contact_dia)
               \o << "  <text x=\"10\" y=\"380\" class=\"label\" text-anchor=\"start\">Pin Contact</text>",
                     "  <text x=\"10\" y=\"395\" class=\"label\" text-anchor=\"start\">Master Keyway</text>",
                     "</svg>" >>

\* generate_svg drawing an empty contact list when the positions are missing
generate_svg_EmptyDrawing(self) ==
    LET p == get_properties(self)
    IN IF "contact_positions" \notin DOMAIN p
       THEN Drawing(p @@ [contact_positions |-> <<>>])
       ELSE Drawing(p)

\* generate_svg(), called without a filename: the text it returns
generate_svg(self) ==
    LET p == get_properties(self)
    IN IF "contact_positions" \notin DOMAIN p THEN NoPositionData
       ELSE Drawing(p)

---------------------------------------------------------------------------
(* class D38999PartNumberGenerator: the attributes document *)

\* Configuration constant REVISION
REVISION == 1

\* Configuration constant RELEASE_STATUS = None
RELEASE_STATUS == None

\* JSON values of the fields that hold a number for one part and a string
\* or null for another
JNumber(n) == [number |-> n]
JString(str) == [string |-> str]
JNull == [null |-> TRUE]

\* the first index i >= from with s[i:i+len(sub)] = sub (1-based), 0 if none
RECURSIVE FindFrom(_, _, _)
FindFrom(s, sub, from) ==
    IF from + Len(sub) - 1 > Len(s) THEN 0
    ELSE IF SubSeq(s, from, from + Len(sub) - 1) = sub THEN from
    ELSE FindFrom(s, sub, from + 1)

\* s.split(' to ')[0] if ' to ' in s else None
TemperatureMin(s) ==
    IF FindFrom(s, " to ", 1) = 0 THEN JNull
    ELSE JString(SubSeq(s, 1, FindFrom(s, " to ", 1) - 1))

\* s.split(' to ')[1] if ' to ' in s else None
TemperatureMax(s) ==
    LET i == FindFrom(s, " to ", 1)
        j == IF i = 0 THEN 0 ELSE FindFrom(s, " to ", i + 4)
    IN IF i = 0 THEN JNull
       ELSE JString(SubSeq(s, i + 4, IF j = 0 THEN Len(s) ELSE j - 1))

\* props.get(key, 'N/A') of a key whose value is a number
NumberOrNA(p, key) == IF key \in DOMAIN p THEN JNumber(p[key]) ELSE JString("N/A")

\* the 'contacts' block of the attributes document
ContactsBlock(self, p) ==
    [insert_arrangement |-> Get(p, "insert_arrangement", "N/A"),
     contact_count |-> NumberOrNA(p, "contact_count"),
     contact_size |-> Get(p, "contact_size", "N/A"),
     service_rating |-> Get(p, "service_rating", "N/A"),
     contact_gender |-> Get(p, "contact_gender", "N/A"),
     contact_type_code |-> self.contact_type,
     mating_cycles |-> NumberOrNA(p, "mating_cycles"),
     contact_positions |-> Get(p, "contact_positions", <<>>)]

\* _create_attributes_json: the attributes dictionary it dumps to the file
\* (the blocks 'standards_compliance', 'procurement' and 'quality' are
\* literals of the source and are kept as their key only)
create_attributes_json(self, revision, release_status) ==
    LET p == get_properties(self)
    IN [metadata |->
            [part_number |-> p.part_number,
             revision |-> revision,
             release_status |-> IF release_status = None THEN JNull
                                ELSE JString(release_status),
             specification |-> p.specification,
             created_date |-> JNull, modified_date |-> JNull,
             created_by |-> JNull, approved_by |-> JNull],
        identification |->
            [series |-> p.series,
             series_code |-> self.series_code,
             series_description |-> p.series_description,
             manufacturer |-> "Glenair / Various QPL",
             mil_spec |-> "MIL-DTL-38999"],
        finish_and_material |->
            [class_code |-> Get(p, "class", "N/A"),
             finish_name |-> Get(p, "finish", "N/A"),
             material |-> Get(p, "material", "N/A"),
             temperature_range |-> Get(p, "temperature_range", "N/A"),
             salt_spray_rating |-> Get(p, "salt_spray", "N/A"),
             conductive |-> Get(p, "conductive", FALSE),
             space_grade |-> Get(p, "space_grade", FALSE)],
        mechanical |->
            [shell_code |-> Get(p, "shell_code", "N/A"),
             shell_size |-> NumberOrNA(p, "shell_size"),
             thread_size |-> Get(p, "thread_size", "N/A"),
             coupling_type |-> Get(p, "coupling_type", "N/A"),
             dimensions |-> Get(p, "dimensions", EmptyDict)],
        contacts |-> ContactsBlock(self, p),
        polarization |->
            [polarization_code |-> self.polarization,
             polarization_description |-> Get(p, "polarization", "N/A")],
        electrical |->
            [shielding |-> Get(p, "shielding", "N/A"),
             voltage_rating |-> JNull, current_rating |-> JNull,
             dielectric_withstanding_voltage |-> JNull,
             insulation_resistance |-> JNull],
        environmental |->
            [sealing_class |-> Get(p, "sealing", "N/A"),
             ip_rating |-> "IP67",
             operating_temperature_min |-> TemperatureMin(Get(p, "temperature_range", "")),
             operating_temperature_max |-> TemperatureMax(Get(p, "temperature_range", "")),
             altitude_rating |-> "70,000 ft",
             vibration_rating |-> "Per MIL-DTL-38999",
             shock_rating |-> "Per MIL-DTL-38999"],
        tooling |-> Get(p, "tooling", EmptyDict),
        standards_compliance |-> "literal",
        procurement |-> "literal",
        quality |-> "literal",
        notes |->
            [general |-> "D38999 Series " \o p.series \o " connector per MIL-DTL-38999",
             assembly |-> "Requires appropriate crimp contacts and tooling",
             mating |-> "Mates with corresponding " \o p.series \o " series connector",
             warnings |-> <<>>]]

---------------------------------------------------------------------------
(* class D38999PartNumberGenerator: generate_part_numbers *)

\* the number of tuples of itertools.product over the six lists
ProductSize(lists) ==
    Len(lists[1]) * Len(lists[2]) * Len(lists[3]) * Len(lists[4]) * Len(lists[5])
        * Len(lists[6])

\* the element of list i in tuple number k (from 0) of the product: the
\* last list varies fastest
ProductItem(lists, k, i) ==
    LET after == IF i = 6 THEN 1
                 ELSE IF i = 5 THEN Len(lists[6])
                 ELSE IF i = 4 THEN Len(lists[5]) * Len(lists[6])
                 ELSE IF i = 3 THEN Len(lists[4]) * Len(lists[5]) * Len(lists[6])
                 ELSE IF i = 2 THEN Len(lists[3]) * Len(lists[4]) * Len(lists[5])
                                        * Len(lists[6])
                 ELSE Len(lists[2]) * Len(lists[3]) * Len(lists[4]) * Len(lists[5])
                          * Len(lists[6])
    IN lists[i][((k \div after) % Len(lists[i])) + 1]

\* itertools.product(series_codes, class_codes, shell_codes,
\* insert_arrangements, contact_types, polarizations), as a list
Product(lists) ==
    [k \in 1..ProductSize(lists) |-> [i \in 1..6 |-> ProductItem(lists, k - 1, i)]]

\* the constructor call of the loop body on one tuple
ConstructTuple(tuple) ==
    D38999PartNumber(tuple[1], tuple[2], tuple[3], tuple[4], tuple[5], tuple[6])

\* the record the except branch appends to invalid_parts
InvalidEntry(tuple, exception) ==
    [series |-> tuple[1], class |-> tuple[2], shell |-> tuple[3], insert |-> tuple[4],
     contact |-> tuple[5], polarization |-> tuple[6], error |-> exception.message]

\* the tuples left to the for loop after the body ran on the first one and
\* its constructor call ended as given: the ValueError is caught, so the
\* loop goes on
\* a loop that an exception ends
RemainingAfter_StopsAtFailure(combos, call) ==
    IF call.exception.type = "None" THEN Tail(combos) ELSE <<>>

RemainingAfter(combos, call) == Tail(combos)

\* the lines generate_part_numbers prints before it returns
GenerateReport(valid, invalid) ==
    << "", "Generated " \o NatToStr(Len(valid)) \o " valid part numbers" >>
    \o (IF invalid # <<>>
        THEN << "Skipped " \o NatToStr(Len(invalid)) \o " invalid combinations" >>
        ELSE <<>>)

\* the keys of a specification whose values are numbers
NumberKeys == {"contact_count", "shell_size", "mating_cycles"}

\* the keys of a specification whose values are strings
StringKeys ==
    {"part_number", "series", "series_description", "specification", "class", "finish",
     "material", "temperature_range", "salt_spray", "shell_code", "thread_size",
     "insert_arrangement", "contact_size", "service_rating", "contact_gender",
     "polarization", "coupling_type", "shielding", "sealing"}

\* props.get(key), as a value that compares with a value of any type
PropsGet(p, key) ==
    IF key \notin DOMAIN p THEN JNull
    ELSE IF key \in NumberKeys THEN JNumber(p[key])
    ELSE IF key \in StringKeys THEN JString(p[key])
    ELSE [object |-> p[key]]

\* the inner loop of filter_parts: no criterion differs from the property
Matches(p, criteria) ==
    \A key \in DOMAIN criteria : PropsGet(p, key) = criteria[key]

\* filter_parts(**criteria) over the list of parts
filter_parts(parts, criteria) ==
    LET Match(candidate) == Matches(get_properties(candidate), criteria)
    IN SelectSeq(parts, Match)

\* a dict of counts: each key that occurs, with the number of its occurrences
CountBy(keys) ==
    [k \in {keys[i] : i \in DOMAIN keys} |->
        Cardinality({i \in DOMAIN keys : keys[i] = k})]

\* the str get_summary returns when there are no parts
NoPartsGenerated == [message |-> "No part numbers generated."]

\* get_summary counting in the class breakdown only the parts whose class
\* resolved
get_summary_KnownClassesOnly(parts) ==
    IF parts = <<>> THEN NoPartsGenerated
    ELSE LET all_props == [i \in DOMAIN parts |-> get_properties(parts[i])]
             classed == SelectSeq(all_props, LAMBDA p : "class" \in DOMAIN p)
         IN [total_parts |-> Len(parts),
             series |-> CountBy([i \in DOMAIN parts |-> all_props[i].series]),
             classes |-> CountBy([i \in DOMAIN classed |-> classed[i].class]),
             shell_sizes |-> CountBy([i \in DOMAIN parts |->
                                        IF "shell_size" \in DOMAIN all_props[i]
                                        THEN JNumber(all_props[i].shell_size)
                                        ELSE JString("Unknown")]),
             contact_types |-> CountBy([i \in DOMAIN parts |->
                                          Get(all_props[i], "contact_gender", "Unknown")])]

\* get_summary() over the list of parts
get_summary(parts) ==
    IF parts = <<>> THEN NoPartsGenerated
    ELSE LET all_props == [i \in DOMAIN parts |-> get_properties(parts[i])]
         IN [total_parts |-> Len(parts),
             series |-> CountBy([i \in DOMAIN parts |-> all_props[i].series]),
             classes |-> CountBy([i \in DOMAIN parts |->
                                     Get(all_props[i], "class", "Unknown")]),
             shell_sizes |-> CountBy([i \in DOMAIN parts |->
                                        IF "shell_size" \in DOMAIN all_props[i]
                                        THEN JNumber(all_props[i].shell_size)
                                        ELSE JString("Unknown")]),
             contact_types |-> CountBy([i \in DOMAIN parts |->
                                          Get(all_props[i], "contact_gender", "Unknown")])]

---------------------------------------------------------------------------
(* class D38999Specs (d38999_specs.py) *)

\* D38999Specs.CONTACT_SPECS; current_rating in tenths of an ampere
Specs_CONTACT_SPECS ==
       4 :> [wire_gauge |-> "4-8 AWG", current_rating |-> 750, crimp_tool |-> "M22520/5-01", extraction_tool |-> "M81969/14-01"]
    @@ 8 :> [wire_gauge |-> "8-12 AWG", current_rating |-> 460, crimp_tool |-> "M22520/5-01", extraction_tool |-> "M81969/14-02"]
    @@ 12 :> [wire_gauge |-> "12-16 AWG", current_rating |-> 230, crimp_tool |-> "M22520/2-01", extraction_tool |-> "M81969/14-03"]
    @@ 16 :> [wire_gauge |-> "16-20 AWG", current_rating |-> 130, crimp_tool |-> "M22520/2-01", extraction_tool |-> "M81969/14-04"]
    @@ 20 :> [wire_gauge |-> "20-24 AWG", current_rating |-> 75, crimp_tool |-> "M22520/2-01", extraction_tool |-> "M81969/14-05"]
    @@ 22 :> [wire_gauge |-> "22-26 AWG", current_rating |-> 50, crimp_tool |-> "M22520/2-01", extraction_tool |-> "M81969/14-06"]

SERIES ==
       "W" :> "Series I - Bayonet Coupling"
    @@ "T" :> "Series II - Threaded Coupling"
    @@ "Z" :> "Series III - Breech Coupling"
    @@ "H" :> "Series IV - Hermetic Solder"

\* the contact layout of shell size 24, arrangement A98
A98_contacts ==
    <<
        [pos |-> "A", size |-> 16, angle |-> 0, radius |-> 95],
        [pos |-> "B", size |-> 16, angle |-> 450, radius |-> 95],
        [pos |-> "C", size |-> 16, angle |-> 900, radius |-> 95],
        [pos |-> "D", size |-> 16, angle |-> 1350, radius |-> 95],
        [pos |-> "E", size |-> 16, angle |-> 1800, radius |-> 95],
        [pos |-> "F", size |-> 16, angle |-> 2250, radius |-> 95],
        [pos |-> "G", size |-> 16, angle |-> 2700, radius |-> 95],
        [pos |-> "H", size |-> 16, angle |-> 3150, radius |-> 95],
        [pos |-> "1", size |-> 20, angle |-> 225, radius |-> 65],
        [pos |-> "2", size |-> 20, angle |-> 675, radius |-> 65],
        [pos |-> "3", size |-> 20, angle |-> 1125, radius |-> 65],
        [pos |-> "4", size |-> 20, angle |-> 1575, radius |-> 65],
        [pos |-> "5", size |-> 20, angle |-> 2025, radius |-> 65],
        [pos |-> "6", size |-> 20, angle |-> 2475, radius |-> 65],
        [pos |-> "7", size |-> 20, angle |-> 2925, radius |-> 65],
        [pos |-> "8", size |-> 20, angle |-> 3375, radius |-> 65]
    >>

\* D38999Specs.INSERT_ARRANGEMENTS: shell size -> arrangement -> layout
Specs_INSERT_ARRANGEMENTS == 24 :> ("A98" :> [contacts |-> A98_contacts])

\* self.environmental_specs, set by __init__
environmental_specs ==
    [operating_temp_min |-> -65, operating_temp_max |-> 200,
     storage_temp_min |-> -67, storage_temp_max |-> 200,
     humidity |-> 95, altitude_max |-> 21336,
     vibration_freq_min |-> 10, vibration_freq_max |-> 2000,
     shock |-> 100, salt_spray_hours |-> 48, ip_rating |-> "IP67"]

\* self.mechanical_specs, set by __init__
mechanical_specs ==
    [mating_cycles_min |-> 500, mating_cycles_high_perf |-> 1000,
     engagement_rotation_bayonet |-> 90, engagement_rotation_breech |-> 45]

\* one Contact of _get_contacts; x and y in hundredths of a millimetre
ContactOf(contact_def, contact_type) ==
    LET spec == Specs_CONTACT_SPECS[contact_def.size]
    IN [position |-> contact_def.pos,
        size |-> contact_def.size,
        x |-> RoundDiv(contact_def.radius * Cos(contact_def.angle), 10000),
        y |-> RoundDiv(contact_def.radius * Sin(contact_def.angle), 10000),
        type |-> contact_type,
        wire_gauge |-> spec.wire_gauge,
        current_rating |-> spec.current_rating,
        crimp_tool |-> spec.crimp_tool,
        extraction_tool |-> spec.extraction_tool]

\* _get_contacts(shell_size, arrangement, shell_style)
get_contacts(shell_size, arrangement, shell_style) ==
    LET layout == Get(Get(Get(Specs_INSERT_ARRANGEMENTS, shell_size, EmptyDict),
                          arrangement, EmptyDict),
                      "contacts", <<>>)
        contact_type == IF shell_style = "S" THEN "Socket" ELSE "Pin"
    IN IF layout = <<>> THEN <<>>
       ELSE [i \in 1..Len(layout) |-> ContactOf(layout[i], contact_type)]

\* one Dimension; value and tolerance in ten-thousandths of a millimetre
Dimension(name, value, tolerance) ==
    [name |-> name, value |-> value, tolerance |-> tolerance, reference |-> "MS27473"]

\* _get_dimensions(shell_size, series_code)
get_dimensions(shell_size, series_code) ==
    LET shell_od == shell_size * 15875
    IN << Dimension("Shell OD", shell_od, 2500),
          Dimension("Thread Major Dia", shell_od - 15000, 1500),
          Dimension("Flange OD", shell_od + 60000, 3000),
          Dimension("Flange Thickness", 20000, 1000),
          Dimension("Shell Length", 250000 + shell_size * 5000, 5000),
          Dimension("Pin Depth", 80000, 2000) >>
       \o (IF series_code = "W"
           THEN << Dimension("Bayonet Pin Height", 15000, 1000) >> ELSE <<>>)
       \o (IF series_code = "T"
           THEN << Dimension("Thread Length", 120000, 3000) >> ELSE <<>>)

\* the characters of the tool names, in code-point order
CodePoints == " -/0123456789ABCDEFGHIJKLMNOPQRSTUVWXYZabcdefghijklmnopqrstuvwxyz"

\* a < b for two Python strings
RECURSIVE StrLess(_, _)
StrLess(a, b) ==
    IF Len(b) = 0 THEN FALSE
    ELSE IF Len(a) = 0 THEN TRUE
    ELSE IF Head(a) = Head(b) THEN StrLess(Tail(a), Tail(b))
    ELSE IndexOf(CodePoints, SubSeq(a, 1, 1)) < IndexOf(CodePoints, SubSeq(b, 1, 1))

\* sorted(list(tools)) of a set of strings
RECURSIVE Sorted(_)
Sorted(tools) ==
    IF tools = {} THEN <<>>
    ELSE LET first == CHOOSE t \in tools : \A u \in tools \ {t} : StrLess(t, u)
         IN <<first>> \o Sorted(tools \ {first})

\* _get_assembly_tooling(contacts, series_code)
get_assembly_tooling(contact_list, series_code) ==
    Sorted({contact_list[i].crimp_tool : i \in DOMAIN contact_list}
           \union {contact_list[i].extraction_tool : i \in DOMAIN contact_list}
           \union {"Insertion/Extraction Tool Set - M81969/14",
                   "Contact Crimp Tool - M22520/2-01"}
           \union (IF series_code = "T" THEN {"Coupling Nut Wrench"} ELSE {})
           \union {"Pin/Socket Gauge - MS27487", "Continuity Tester"})

\* _get_voltage_rating(shell_size); volts, and megohms for the last key
get_voltage_rating(shell_size) ==
    [sea_level_rms |-> 600, sea_level_dc |-> 850, ft50000_rms |-> 150,
     ft70000_rms |-> 100, dielectric_withstand |-> 1500,
     insulation_resistance_min |-> 5000]

\* the ConnectorSpecs parse_part_number builds from a descriptor that is
\* long enough for the fields it indexes
ConnectorSpecs(normalized, descriptor) ==
    LET shell_size == IntOf(Slice(descriptor, 0, 2))
        series_code == CharAt(descriptor, 2)
        series == Get(SERIES, series_code, "Unknown Series (" \o series_code \o ")")
        insert_arrangement == Slice(descriptor, 3, 6)
        shell_style_code == IF Len(descriptor) > 6 THEN CharAt(descriptor, 6) ELSE "S"
        shell_style == IF shell_style_code = "S" THEN "Socket" ELSE "Pin"
        contact_list == get_contacts(shell_size, insert_arrangement, shell_style)
    IN [part_number |-> normalized,
        series |-> series,
        shell_size |-> shell_size,
        insert_arrangement |-> insert_arrangement,
        contacts |-> contact_list,
        dimensions |-> get_dimensions(shell_size, series_code),
        assembly_tooling |-> get_assembly_tooling(contact_list, series_code),
        voltage_rating |-> get_voltage_rating(shell_size),
        environmental_specs |-> environmental_specs,
        mechanical_specs |-> mechanical_specs]

\* a parser that checks the number of parts only
parse_part_number_AnyPrefix(text) ==
    LET normalized == Upper(RemoveSpaces(text))
        parts == Split(normalized)
    IN IF Len(parts) # 2
       THEN [exception |-> ValueError("Invalid part number format: " \o normalized),
             specs |-> EmptyDict]
       ELSE IF ~IntAccepts(Slice(parts[2], 0, 2))
       THEN [exception |-> ValueError("invalid literal for int() with base 10: '"
                                          \o Slice(parts[2], 0, 2) \o "'"),
             specs |-> EmptyDict]
       ELSE IF Len(parts[2]) < 3
       THEN [exception |-> IndexError, specs |-> EmptyDict]
       ELSE [exception |-> NoException, specs |-> ConnectorSpecs(normalized, parts[2])]

\* parse_part_number(part_number): [exception, specs]
parse_part_number(text) ==
    LET normalized == Upper(RemoveSpaces(text))
        parts == Split(normalized)
    IN IF Len(parts) # 2 \/ ~StartsWith(parts[1], "D38999")
       THEN [exception |-> ValueError("Invalid part number format: " \o normalized),
             specs |-> EmptyDict]
       ELSE IF ~IntAccepts(Slice(parts[2], 0, 2))
       THEN [exception |-> ValueError("invalid literal for int() with base 10: '"
                                          \o Slice(parts[2], 0, 2) \o "'"),
             specs |-> EmptyDict]
       ELSE IF Len(parts[2]) < 3
       THEN [exception |-> IndexError, specs |-> EmptyDict]
       ELSE [exception |-> NoException, specs |-> ConnectorSpecs(normalized, parts[2])]

---------------------------------------------------------------------------
(* State machine: the calls on one D38999PartNumber *)

\* the argument values the calls are tried with: codes of the tables, in
\* upper and lower case and with a space around them, and codes of no table
SeriesInputs == {"26", "46", "99", "III", "26 "}
ClassInputs == {"F", "f", " f", "AA", "N", "X"}
ShellInputs == {"A", "B", "X"}
InsertInputs == {"A35", "b35", "C35", "B2", "ZZ"}
ContactInputs == {"P", "A", "X"}
PolarizationInputs == {"N", "K", "Q"}

\* no call was made yet: no arguments, no object, no return value
InitDescriptor ==
    /\ codes = <<>>
    /\ part = NoPart
    /\ raised = NoException
    /\ props = EmptyDict
    /\ svg = <<>>
    /\ attributes = EmptyDict
    /\ built = ""

InitGenerator ==
    /\ pc = "idle"
    /\ args = <<>>
    /\ combinations = <<>>
    /\ generated_parts = <<>>
    /\ invalid_parts = <<>>
    /\ returned = <<>>
    /\ stdout = <<>>
    /\ filtered = <<>>
    /\ summary = EmptyDict

InitParser ==
    /\ part_number = ""
    /\ source = NoPart
    /\ parsed = EmptyDict
    /\ contacts = <<>>
    /\ tooling_series = ""
    /\ tooling = <<>>

\* the tables as the class body leaves them
InitTables == tables = ClassTables

\* an empty base directory, and no create_directories call yet
InitDirectories ==
    /\ fs = {}
    /\ dir_pc = "idle"
    /\ dir_base = ""
    /\ dir_subdirs = <<>>
    /\ dir_queue = <<>>
    /\ stats = EmptyDict
    /\ counted = {}
    /\ content = EmptyDict
    /\ touched = {}
    /\ prev = EmptyDict
    /\ svg_report = EmptyDict

Init == InitDescriptor /\ InitGenerator /\ InitParser /\ InitTables /\ InitDirectories

\* part = D38999PartNumber(...): a new object, or the ValueError. A
\* behaviour follows one object: the constructor is called once, first.
Construct(series_code, class_code, shell_code, insert_arrangement, contact_type, polarization) ==
    LET call == D38999PartNumber(series_code, class_code, shell_code,
                                 insert_arrangement, contact_type, polarization)
    IN /\ codes = <<>>
       /\ codes' = <<series_code, class_code, shell_code,
                     insert_arrangement, contact_type, polarization>>
       /\ part' = call.self
       /\ raised' = call.exception
       /\ props' = EmptyDict
       /\ svg' = <<>>
       /\ attributes' = EmptyDict
       /\ built' = ""
       /\ UNCHANGED <<gvars, pvars, cvars, fvars>>

\* built = part.build_part_number()
BuildPartNumber ==
    /\ DOMAIN part # {}
    /\ built' = build_part_number(part)
    /\ UNCHANGED <<codes, part, raised, props, svg, attributes, gvars, pvars, cvars, fvars>>

\* get_properties writing the defaults it reads into the class entry
GetProperties_SetsDefaults ==
    /\ DOMAIN part # {}
    /\ props' = get_properties(part)
    /\ tables' = [tables EXCEPT !.ENV_CLASSES =
                      [c \in DOMAIN @ |-> [salt_spray |-> "N/A"] @@ @[c]]]
    /\ UNCHANGED <<codes, part, raised, svg, attributes, built, gvars, pvars, fvars>>

\* props = part.get_properties()
GetProperties ==
    /\ DOMAIN part # {}
    /\ props' = get_properties(part)
    /\ UNCHANGED <<codes, part, raised, svg, attributes, built, gvars, pvars, cvars, fvars>>

\* svg = part.generate_svg()
GenerateSvg ==
    /\ DOMAIN part # {}
    /\ svg' = generate_svg(part)
    /\ UNCHANGED <<codes, part, raised, props, attributes, built, gvars, pvars, cvars, fvars>>

\* generator._create_attributes_json(part, directory, dir_name) of a
\* generator built with the default revision and release status
CreateAttributesJson ==
    /\ DOMAIN part # {}
    /\ attributes' = create_attributes_json(part, REVISION, RELEASE_STATUS)
    /\ UNCHANGED <<codes, part, raised, props, svg, built, gvars, pvars, cvars, fvars>>

\* the argument lists generate_part_numbers is tried with
SeriesLists == Lists({"26", "99"}, MaxListLen)
ClassLists == {<<"F">>, <<"f", "AA">>}
ShellLists == {<<"A">>}
InsertLists == {<<"A35">>, <<"C35", "ZZ">>}
ContactLists == {<<"P">>}
PolarizationLists == Lists({"N"}, MaxListLen)

\* generate_part_numbers(...) up to its for loop; a call starts when no
\* other call is running
GenerateStart(series_codes, class_codes, shell_codes, insert_arrangements, contact_types, polarizations) ==
    /\ pc \in {"idle", "done"}
    /\ args' = <<series_codes, class_codes, shell_codes,
                 insert_arrangements, contact_types, polarizations>>
    /\ generated_parts' = <<>>
    /\ invalid_parts' = <<>>
    /\ combinations' = Product(args')
    /\ returned' = <<>>
    /\ stdout' = <<>>
    /\ pc' = "loop"
    /\ UNCHANGED <<filtered, summary, dvars, pvars, cvars, fvars>>

\* one pass of the for loop
GenerateStep ==
    /\ pc = "loop"
    /\ combinations # <<>>
    /\ LET call == ConstructTuple(Head(combinations))
       IN /\ IF call.exception.type = "None"
             THEN /\ generated_parts' = Append(generated_parts, call.self)
                  /\ UNCHANGED invalid_parts
             ELSE /\ invalid_parts' = Append(invalid_parts,
                                             InvalidEntry(Head(combinations), call.exception))
                  /\ UNCHANGED generated_parts
          /\ combinations' = RemainingAfter(combinations, call)
    /\ UNCHANGED <<pc, args, returned, stdout, filtered, summary, dvars, pvars, cvars, fvars>>

\* the end of the loop: the two prints and the return; the local
\* invalid_parts ends with the call
GenerateReturn ==
    /\ pc = "loop"
    /\ combinations = <<>>
    /\ stdout' = GenerateReport(generated_parts, invalid_parts)
    /\ returned' = <<generated_parts>>
    /\ invalid_parts' = <<>>
    /\ pc' = "done"
    /\ UNCHANGED <<args, combinations, generated_parts, filtered, summary, dvars, pvars, cvars, fvars>>

NextGenerator ==
    \/ \E series_codes \in SeriesLists, class_codes \in ClassLists,
          shell_codes \in ShellLists, insert_arrangements \in InsertLists,
          contact_types \in ContactLists, polarizations \in PolarizationLists :
            GenerateStart(series_codes, class_codes, shell_codes,
                          insert_arrangements, contact_types, polarizations)
    \/ GenerateStep
    \/ GenerateReturn

SpecGenerator == Init /\ [][NextGenerator]_vars

---------------------------------------------------------------------------
(* State machine: the calls on one D38999Specs *)

\* the strings handed to parse_part_number: a prefix, a separator, a descriptor
PrefixInputs == {"D38999", "d38999", "D38999X", "D3899", "MS38999", ""}
SeparatorInputs == {"/", "-", "//", " / ", ""}
DescriptorInputs ==
    {"", "2", "24", "24Z", "24ZA9", "24ZA98", "24ZA98S", "24ZA98SN", "24za98pn",
     "24TA98SN", "26FAA35PN", "2XZA98SN", "-4ZA98S", "24/ZA98SN"}

PartNumberInputs ==
    {prefix \o separator \o descriptor :
        prefix \in PrefixInputs, separator \in SeparatorInputs,
        descriptor \in DescriptorInputs}

\* the codes of the descriptors that are built and parsed back
BuiltSeries == {"26", "46"}
BuiltClasses == {"F", "AA"}
BuiltShells == {"A", "J"}
BuiltInserts == {"A35", "B2"}
BuiltContacts == {"P", "S"}
BuiltPolarizations == {"N", "A"}

\* the contact sizes of the lists handed to _get_assembly_tooling
SizeInputs == {16, 20}
ToolingSeriesInputs == {"Z", "T"}

\* a Contact of the given size, as _get_contacts fills its tool fields
ContactOfSize(size) ==
    ContactOf([pos |-> "1", size |-> size, angle |-> 0, radius |-> 0], "Pin")

\* no method of the parser has been called yet; the parser keeps nothing
\* between calls, so a behaviour follows one call
NotCalled == parsed = EmptyDict /\ tooling = <<>>

\* specs = parser.parse_part_number(text)
Parse(text) ==
    /\ NotCalled
    /\ part_number' = text
    /\ parsed' = parse_part_number(text)
    /\ UNCHANGED <<source, contacts, tooling_series, tooling, dvars, gvars, cvars, fvars>>

\* parser.parse_part_number(d.build_part_number()) for a descriptor d that
\* construction accepted
ParseBuilt(series_code, class_code, shell_code, insert_arrangement, contact_type, polarization) ==
    LET call == D38999PartNumber(series_code, class_code, shell_code,
                                 insert_arrangement, contact_type, polarization)
    IN /\ NotCalled
       /\ call.exception.type = "None"
       /\ source' = call.self
       /\ part_number' = build_part_number(call.self)
       /\ parsed' = parse_part_number(part_number')
       /\ UNCHANGED <<contacts, tooling_series, tooling, dvars, gvars, cvars, fvars>>

\* parser._get_assembly_tooling(contacts, series_code)
GetAssemblyTooling(sizes, series_code) ==
    /\ NotCalled
    /\ contacts' = [i \in 1..Len(sizes) |-> ContactOfSize(sizes[i])]
    /\ tooling_series' = series_code
    /\ tooling' = get_assembly_tooling(contacts', series_code)
    /\ UNCHANGED <<part_number, source, parsed, dvars, gvars, cvars, fvars>>

NextParser ==
    \/ \E text \in PartNumberInputs : Parse(text)
    \/ \E series_code \in BuiltSeries, class_code \in BuiltClasses,
          shell_code \in BuiltShells, insert_arrangement \in BuiltInserts,
          contact_type \in BuiltContacts, polarization \in BuiltPolarizations :
            ParseBuilt(series_code, class_code, shell_code,
                       insert_arrangement, contact_type, polarization)
    \/ \E sizes \in Lists(SizeInputs, MaxContacts), series_code \in ToolingSeriesInputs :
            GetAssemblyTooling(sizes, series_code)

SpecParser == Init /\ [][NextParser]_vars

---------------------------------------------------------------------------
(* State machine: the calls on a part and on a generator, interleaved *)

\* the criteria filter_parts is tried with
CriteriaInputs ==
    {EmptyDict,
     [contact_count |-> JNumber(6)],
     [series |-> JString("IV"), contact_gender |-> JString("Pin")],
     [contact_positions |-> JNull]}

\* matching = generator.filter_parts(**criteria)
FilterParts(criteria) ==
    /\ pc # "loop"
    /\ filtered' = filter_parts(generated_parts, criteria)
    /\ UNCHANGED <<pc, args, combinations, generated_parts, invalid_parts, returned,
                   stdout, summary, dvars, pvars, cvars, fvars>>

\* summary = generator.get_summary()
GetSummary ==
    /\ pc # "loop"
    /\ summary' = get_summary(generated_parts)
    /\ UNCHANGED <<pc, args, combinations, generated_parts, invalid_parts, returned,
                   stdout, filtered, dvars, pvars, cvars, fvars>>

\* the lists generate_part_numbers is tried with next to the other calls
CatalogSeriesLists == {<<"26">>, <<"99", "46">>}
CatalogInsertLists == {<<"A35", "C35">>}

NextCatalog ==
    \/ \E series_code \in {"26", "99"}, shell_code \in {"A", "X"},
          insert_arrangement \in {"A35", "C35"} :
            Construct(series_code, "f", shell_code, insert_arrangement, "P", "N")
    \/ BuildPartNumber
    \/ GetProperties
    \/ GenerateSvg
    \/ \E series_codes \in CatalogSeriesLists, insert_arrangements \in CatalogInsertLists :
            GenerateStart(series_codes, <<"F">>, <<"A">>, insert_arrangements, <<"P">>, <<"N">>)
    \/ GenerateStep
    \/ GenerateReturn
    \/ \E criteria \in CriteriaInputs : FilterParts(criteria)
    \/ GetSummary

SpecCatalog == Init /\ [][NextCatalog]_vars

---------------------------------------------------------------------------
(* State machine: a consumer that changes the specification it was given *)

\* the blocks of a specification that are a dict or a list
BlockInputs == {"dimensions", "tooling", "contact_positions"}

\* the class table whose object get_properties put into the specification
\* as the dimensions block of the part
DimensionsTable(self) ==
    IF self.series = "III" THEN "SERIES_III_DIMENSIONS" ELSE "SERIES_IV_DIMENSIONS"

\* the consumer's props['dimensions']['shell_dia'] = 0,
\* props['tooling']['crimper'] = 'changed' or props['contact_positions'].pop().
\* get_properties stored the table's own dict or list in props (props[key] =
\* table[code][...]), so the object the consumer changes is the table's.
ConsumerModifies(block) ==
    /\ block \in DOMAIN props
    /\ \/ /\ block = "dimensions"
          /\ props' = [props EXCEPT !.dimensions.shell_dia = 0]
          /\ tables' = [tables EXCEPT ![DimensionsTable(part)][part.shell_code].shell_dia = 0]
       \/ /\ block = "tooling"
          /\ props' = [props EXCEPT !.tooling.crimper = "changed"]
          /\ tables' = [tables EXCEPT !.CRIMP_TOOLS[props.contact_size].crimper = "changed"]
       \/ /\ block = "contact_positions"
          /\ props.contact_positions # <<>>
          /\ props' = [props EXCEPT !.contact_positions = SubSeq(@, 1, Len(@) - 1)]
          /\ tables' = [tables EXCEPT
                           !.INSERT_ARRANGEMENTS[part.insert_arrangement].positions =
                               SubSeq(@, 1, Len(@) - 1)]
    /\ UNCHANGED <<codes, part, raised, svg, attributes, built, gvars, pvars, fvars>>

NextConsumer ==
    \/ \E series_code \in {"26", "46"}, shell_code \in {"A", "X"},
          insert_arrangement \in {"A35", "C35", "ZZ"} :
            Construct(series_code, "F", shell_code, insert_arrangement, "P", "N")
    \/ GetProperties
    \/ CreateAttributesJson
    \/ \E block \in BlockInputs : ConsumerModifies(block)

SpecConsumer == Init /\ [][NextConsumer]_vars

---------------------------------------------------------------------------
(* State machine: create_directories on the file system *)

\* base / name of pathlib
Path(base, name) == base \o "/" \o name

\* the names create_directories derives from a part
DirName(self) == SlashToDash(build_part_number(self))
RevDirName(dir_name, revision) == dir_name \o "-" \o IntToStr(revision)
AttributesFile(dir_name, revision) ==
    dir_name \o "-" \o IntToStr(revision) \o "-attributes.json"
DrawingFile(dir_name, revision) ==
    dir_name \o "-" \o IntToStr(revision) \o "-drawing.svg"

\* the subdirectories made when include_subdirs is set
Subdirs == <<"drawings", "specifications", "test_reports", "tooling", "assembly">>

\* the steps of one pass of the loop at which the file system can refuse
\* (an OSError), and "none"
FailInputs == {"none", "part_dir", "rev_dir", "subdirs", "attributes", "drawing", "readme"}

\* the steps of a pass in the order in which they are made
StepOrder == <<"part_dir", "rev_dir", "subdirs", "attributes", "drawing", "readme">>

\* the step is made before the pass fails at fail_at
Done(step, fail_at) ==
    \/ fail_at = "none"
    \/ \E i, j \in DOMAIN StepOrder :
          StepOrder[i] = step /\ StepOrder[j] = fail_at /\ i < j

\* the paths a pass for the part has written when it fails at fail_at
Written(self, base, subdirs, fail_at) ==
    LET dir_name == DirName(self)
        part_dir == Path(base, dir_name)
        rev_dir == Path(part_dir, RevDirName(dir_name, REVISION))
    IN (IF Done("part_dir", fail_at) THEN {part_dir} ELSE {})
       \union (IF Done("rev_dir", fail_at) THEN {rev_dir} ELSE {})
       \union (IF Done("subdirs", fail_at)
               THEN {Path(rev_dir, subdirs[i]) : i \in DOMAIN subdirs} ELSE {})
       \union (IF Done("attributes", fail_at)
               THEN {Path(rev_dir, AttributesFile(dir_name, REVISION))} ELSE {})
       \union (IF Done("drawing", fail_at)
               THEN {Path(rev_dir, DrawingFile(dir_name, REVISION))} ELSE {})
       \union (IF Done("readme", fail_at) THEN {Path(part_dir, "README.txt")} ELSE {})

\* the text _create_placeholder_svg writes, as the list of its lines (the
\* style sheet stands as one line)
PlaceholderSvg(dir_name, revision) ==
    << "<?xml version=\"1.0\" encoding=\"UTF-8\"?>",
       "<svg width=\"400\" height=\"400\" xmlns=\"http://www.w3.org/2000/svg\">",
       "  <defs><style>.placeholder .text</style></defs>",
       "  <rect x=\"10\" y=\"10\" width=\"380\" height=\"380\" class=\"placeholder\"/>",
       "  <text x=\"200\" y=\"190\" class=\"text\">" \o dir_name \o "</text>",
       "  <text x=\"200\" y=\"210\" class=\"text\">Revision " \o IntToStr(revision) \o "</text>",
       "  <text x=\"200\" y=\"230\" class=\"text\">Drawing Placeholder</text>",
       "</svg>" >>

\* the path of a part's drawing file under base
DrawingPath(base, dir_name) ==
    Path(Path(Path(base, dir_name), RevDirName(dir_name, REVISION)),
         DrawingFile(dir_name, REVISION))

\* the files among the paths a pass writes: open(..., 'w') writes them
\* whether they exist or not, while mkdir leaves an existing directory alone
FilesWritten(self, base, fail_at) ==
    Written(self, base, <<>>, fail_at)
        \ {Path(base, DirName(self)),
            Path(Path(base, DirName(self)), RevDirName(DirName(self), REVISION))}

\* base_path, for a generator whose base_dir is the current directory
BasePath(root_dir) == IF root_dir = None THEN "." ELSE Path(".", root_dir)

\* stats = generator.create_directories(root_dir, include_subdirs), up to
\* the loop
CreateDirectoriesStart(root_dir, include_subdirs) ==
    /\ dir_pc \in {"idle", "done"}
    /\ pc # "loop"
    /\ IF generated_parts = <<>>
       THEN /\ stats' = JNull
            /\ dir_pc' = "done"
            /\ touched' = {}
            /\ prev' = EmptyDict
            /\ UNCHANGED <<fs, dir_base, dir_subdirs, dir_queue>>
       ELSE /\ dir_base' = BasePath(root_dir)
            /\ fs' = IF root_dir = None THEN fs ELSE fs \union {dir_base'}
            /\ touched' = fs' \ fs
            /\ UNCHANGED prev
            /\ stats' = [created |-> 0, already_existed |-> 0, failed |-> 0,
                         total |-> Len(generated_parts)]
            /\ dir_subdirs' = IF include_subdirs THEN Subdirs ELSE <<>>
            /\ dir_queue' = generated_parts
            /\ dir_pc' = "loop"
    /\ UNCHANGED <<counted, content, svg_report, dvars, gvars, pvars, cvars>>

\* a pass that writes the three documents of a part again when its
\* directories exist already
CreateDirectoriesStep_Rewrites(fail_at) ==
    /\ dir_pc = "loop"
    /\ dir_queue # <<>>
    /\ LET self == Head(dir_queue)
           dir_name == DirName(self)
           part_dir == Path(dir_base, dir_name)
           rev_dir == Path(part_dir, RevDirName(dir_name, REVISION))
           existed == part_dir \in fs /\ rev_dir \in fs
       IN /\ existed => fail_at = "none"
          /\ fs' = fs \union Written(self, dir_base, IF existed THEN <<>> ELSE dir_subdirs, fail_at)
          /\ touched' = touched \union (fs' \ fs) \union FilesWritten(self, dir_base, fail_at)
          /\ content' = IF Done("drawing", fail_at)
                        THEN (DrawingPath(dir_base, dir_name)
                                  :> PlaceholderSvg(dir_name, REVISION)) @@ content
                        ELSE content
          /\ stats' = IF existed
                      THEN [stats EXCEPT !.already_existed = @ + 1]
                      ELSE [stats EXCEPT
                               !.created = IF Done("rev_dir", fail_at) THEN @ + 1 ELSE @,
                               !.failed = IF fail_at = "none" THEN @ ELSE @ + 1]
          /\ counted' = IF Done("rev_dir", fail_at)
                        THEN counted \union {<<dir_base, dir_name>>}
                        ELSE counted
    /\ dir_queue' = Tail(dir_queue)
    /\ UNCHANGED <<dir_pc, dir_base, dir_subdirs, prev, svg_report,
                   dvars, gvars, pvars, cvars>>

\* one pass of the loop, which ends at the step fail_at with an exception
\* or, for "none", goes through
CreateDirectoriesStep(fail_at) ==
    /\ dir_pc = "loop"
    /\ dir_queue # <<>>
    /\ LET self == Head(dir_queue)
           dir_name == DirName(self)
           part_dir == Path(dir_base, dir_name)
           rev_dir == Path(part_dir, RevDirName(dir_name, REVISION))
       IN IF part_dir \in fs /\ rev_dir \in fs
          THEN /\ fail_at = "none"
               /\ stats' = [stats EXCEPT !.already_existed = @ + 1]
               /\ counted' = counted \union {<<dir_base, dir_name>>}
               /\ UNCHANGED <<fs, content, touched>>
          ELSE /\ fs' = fs \union Written(self, dir_base, dir_subdirs, fail_at)
               /\ touched' = touched \union (fs' \ fs)
                                     \union FilesWritten(self, dir_base, fail_at)
               /\ content' = IF Done("drawing", fail_at)
                             THEN (DrawingPath(dir_base, dir_name)
                                       :> PlaceholderSvg(dir_name, REVISION)) @@ content
                             ELSE content
               /\ stats' = [stats EXCEPT
                               !.created = IF Done("rev_dir", fail_at) THEN @ + 1 ELSE @,
                               !.failed = IF fail_at = "none" THEN @ ELSE @ + 1]
               /\ counted' = IF Done("rev_dir", fail_at)
                             THEN counted \union {<<dir_base, dir_name>>}
                             ELSE counted
    /\ dir_queue' = Tail(dir_queue)
    /\ UNCHANGED <<dir_pc, dir_base, dir_subdirs, prev, svg_report,
                   dvars, gvars, pvars, cvars>>

\* the call in progress repeats the last finished call, which had no
\* failure: the same base path, the same generated parts
Repeats ==
    /\ prev # EmptyDict
    /\ prev.base = dir_base
    /\ prev.parts = generated_parts
    /\ prev.failed = 0

\* the end of the loop: the summary is printed and stats returned
CreateDirectoriesReturn ==
    /\ dir_pc = "loop"
    /\ dir_queue = <<>>
    /\ dir_pc' = "done"
    /\ prev' = [base |-> dir_base, parts |-> generated_parts,
                failed |-> stats.failed, repeated |-> Repeats]
    /\ UNCHANGED <<fs, dir_base, dir_subdirs, dir_queue, stats, counted,
                   content, touched, svg_report, dvars, gvars, pvars, cvars>>

\* generation first, then create_directories calls, all with the same
\* root_dir, each pass free to fail at any of its steps
NextDirectories ==
    \/ /\ dir_pc = "idle"
       /\ pc = "idle"
       /\ \E insert_arrangements \in {<<"A35">>, <<"A35", "C35">>} :
            GenerateStart(<<"26">>, <<"F">>, <<"A">>, insert_arrangements, <<"P">>, <<"N">>)
    \/ GenerateStep
    \/ GenerateReturn
    \/ \E root_dir \in {None, "parts"}, include_subdirs \in BOOLEAN :
            /\ dir_base \in {"", BasePath(root_dir)}
            /\ CreateDirectoriesStart(root_dir, include_subdirs)
    \/ \E fail_at \in FailInputs : CreateDirectoriesStep(fail_at)
    \/ CreateDirectoriesReturn

SpecDirectories == Init /\ [][NextDirectories]_vars

---------------------------------------------------------------------------
(* State machine: the drawings on the file system *)

\* the exception of an open() that the file system refuses
OSError == [type |-> "OSError", message |-> ""]

\* generate_svg(filename) writing the signal to the file when the part has
\* no contact positions
generate_svg_file_WritesSignal(self, directory, name, io_error) ==
    LET p == get_properties(self)
    IN IF directory \notin fs \/ io_error
       THEN [returned |-> <<>>, exception |-> OSError, wrote |-> FALSE]
       ELSE [returned |-> generate_svg(self), exception |-> NoException, wrote |-> TRUE]

\* generate_svg(filename), filename = directory / name: what it returns or
\* raises and whether it wrote the file; open() fails for a directory that
\* does not exist, or when the file system refuses (io_error)
generate_svg_file(self, directory, name, io_error) ==
    LET p == get_properties(self)
    IN IF "contact_positions" \notin DOMAIN p
       THEN [returned |-> NoPositionData, exception |-> NoException, wrote |-> FALSE]
       ELSE IF directory \notin fs \/ io_error
       THEN [returned |-> <<>>, exception |-> OSError, wrote |-> FALSE]
       ELSE [returned |-> Drawing(p), exception |-> NoException, wrote |-> TRUE]

\* the revision directory of a part under base
RevDirPath(base, dir_name) ==
    Path(Path(base, dir_name), RevDirName(dir_name, REVISION))

\* part.generate_svg(filename) for the drawing file of a generated part
GenerateSvgFile(i, output_dir, io_error) ==
    /\ pc # "loop"
    /\ dir_pc # "loop"
    /\ i \in DOMAIN generated_parts
    /\ LET self == generated_parts[i]
           dir_name == DirName(self)
           directory == RevDirPath(BasePath(output_dir), dir_name)
           name == DrawingFile(dir_name, REVISION)
           call == generate_svg_file(self, directory, name, io_error)
       IN /\ svg' = IF call.exception.type = "None" THEN call.returned ELSE svg
          /\ fs' = IF call.wrote THEN fs \union {Path(directory, name)} ELSE fs
          /\ content' = IF call.wrote
                        THEN (Path(directory, name) :> call.returned) @@ content
                        ELSE content
          /\ touched' = IF call.wrote THEN {Path(directory, name)} ELSE {}
    /\ UNCHANGED <<codes, part, raised, props, attributes, built, gvars, pvars, cvars,
                   dir_pc, dir_base, dir_subdirs, dir_queue, stats, counted, prev,
                   svg_report>>

\* generator.generate_svgs(output_dir, populate_drawings); failing are the
\* parts for whose file the file system refuses the open()
GenerateSvgs(output_dir, populate_drawings, failing) ==
    /\ pc # "loop"
    /\ dir_pc # "loop"
    /\ LET output_path == BasePath(output_dir)
           Name(i) == DirName(generated_parts[i])
           Call(i) == generate_svg_file(generated_parts[i],
                                        RevDirPath(output_path, Name(i)),
                                        DrawingFile(Name(i), REVISION), i \in failing)
           tried == {i \in DOMAIN generated_parts :
                        /\ "contact_positions" \in DOMAIN get_properties(generated_parts[i])
                        /\ populate_drawings}
           drawn == {i \in tried : Call(i).exception.type = "None"}
           files == {DrawingPath(output_path, Name(i)) : i \in {j \in tried : Call(j).wrote}}
           generated == Cardinality(drawn)
           skipped == Cardinality(tried \ drawn)
                      + Cardinality({i \in DOMAIN generated_parts \ tried : populate_drawings})
       IN /\ failing \subseteq tried
          /\ fs' = fs \union files
          /\ content' = [f \in files |->
                            Call(CHOOSE i \in tried : DrawingPath(output_path, Name(i)) = f).returned]
                        @@ content
          /\ touched' = files
          /\ svg_report' = IF populate_drawings
                           THEN [generated |-> generated, skipped |-> skipped]
                           ELSE [placeholders |-> TRUE]
    /\ UNCHANGED <<dvars, gvars, pvars, cvars,
                   dir_pc, dir_base, dir_subdirs, dir_queue, stats, counted, prev>>

\* the directories generate_svgs and create_directories are called with
DirInputs == {None, "parts"}

\* generation first, then create_directories, generate_svgs and
\* generate_svg(filename) calls in any order; create_directories with the
\* same root_dir in every call, a pass going through or failing at the
\* attributes document
NextDrawings ==
    \/ /\ dir_pc = "idle"
       /\ pc = "idle"
       /\ svg_report = EmptyDict
       /\ \E insert_arrangements \in {<<"A35">>, <<"C35">>, <<"A35", "C35">>} :
            GenerateStart(<<"26">>, <<"F">>, <<"A">>, insert_arrangements, <<"P">>, <<"N">>)
    \/ GenerateStep
    \/ GenerateReturn
    \/ \E root_dir \in DirInputs :
            /\ dir_base \in {"", BasePath(root_dir)}
            /\ CreateDirectoriesStart(root_dir, FALSE)
    \/ \E fail_at \in {"none", "attributes"} : CreateDirectoriesStep(fail_at)
    \/ CreateDirectoriesReturn
    \/ \E output_dir \in DirInputs, populate_drawings \in BOOLEAN,
          failing \in SUBSET DOMAIN generated_parts :
            GenerateSvgs(output_dir, populate_drawings, failing)
    \/ \E i \in DOMAIN generated_parts, output_dir \in DirInputs, io_error \in BOOLEAN :
            GenerateSvgFile(i, output_dir, io_error)

SpecDrawings == Init /\ [][NextDrawings]_vars

---------------------------------------------------------------------------
(* State machine: batches, then the summary *)

\* the argument lists of the batches that are summarised: none, only
\* rejected, only accepted and mixed series; known and unknown class, shell
\* and contact codes
SummarySeriesLists == {<<>>, <<"99">>, <<"26">>, <<"26", "99", "46">>}
SummaryClassLists == {<<"F">>, <<"X", "f">>}
SummaryShellLists == {<<"A">>, <<"Z", "B">>}
SummaryContactLists == {<<"P">>, <<"S", "Q">>}

\* any sequence of generate_part_numbers calls, then get_summary
NextSummary ==
    \/ /\ summary = EmptyDict
       /\ \E series_codes \in SummarySeriesLists, class_codes \in SummaryClassLists,
             shell_codes \in SummaryShellLists, contact_types \in SummaryContactLists :
            GenerateStart(series_codes, class_codes, shell_codes, <<"A35">>,
                          contact_types, <<"N">>)
    \/ GenerateStep
    \/ GenerateReturn
    \/ GetSummary

SpecSummary == Init /\ [][NextSummary]_vars

Next ==
    \/ \E series_code \in SeriesInputs, class_code \in ClassInputs,
          shell_code \in ShellInputs, insert_arrangement \in InsertInputs,
          contact_type \in ContactInputs, polarization \in PolarizationInputs :
            Construct(series_code, class_code, shell_code,
                      insert_arrangement, contact_type, polarization)
    \/ BuildPartNumber
    \/ GetProperties
    \/ GenerateSvg
    \/ CreateAttributesJson

Spec == Init /\ [][Next]_vars

---------------------------------------------------------------------------
(* Claims about D38999PartNumber *)

\* a constructor call was made
Constructed == codes # <<>>

\* the series code is a key of one of the two series tables
KnownSeries(series_code) == series_code \in DOMAIN SERIES_III \union DOMAIN SERIES_IV

\* C2: the constructor raises the invalid-series error, whose message
\* carries the code, exactly when the series code is a key of neither
\* SERIES_III nor SERIES_IV, whatever the other five codes are; otherwise it
\* builds the object.
C2_OnlyInvalidSeriesRejects ==
    Constructed =>
        /\ raised.type \in {"None", "ValueError"}
        /\ (raised.type = "ValueError") <=> ~KnownSeries(codes[1])
        /\ raised.type = "ValueError" =>
               /\ raised.message = "Invalid series code: " \o codes[1]
               /\ part = NoPart
        /\ raised.type = "None" => DOMAIN part # {}

\* a call with series code "99" raised, and its other codes are table codes
C2_Witness ==
    /\ Constructed
    /\ codes = <<"99", "F", "A", "A35", "P", "N">>
    /\ raised.type = "ValueError"

\* the keys are all in props when the lookup hit, and none is when it missed
AllOrNone(keys, hit) ==
    IF hit THEN keys \subseteq DOMAIN props ELSE keys \intersect DOMAIN props = {}

\* the dimension table of a series family
FamilyDimensions(series) ==
    IF series = "III" THEN SERIES_III_DIMENSIONS ELSE SERIES_IV_DIMENSIONS

\* C3: get_properties of a constructed part returns a specification whatever
\* the other five codes are: the fields of a lookup that missed are absent
\* from it (for an unknown shell code: shell size, thread size and
\* dimensions), the fields of every lookup that hit hold the table's values,
\* and the fields that need no lookup are always there.
C3_GracefulDegradation ==
    props # EmptyDict =>
        /\ {"part_number", "series", "series_description", "specification",
            "insert_arrangement", "coupling_type", "shielding", "sealing"}
               \subseteq DOMAIN props
        /\ AllOrNone({"class", "finish", "material", "temperature_range", "salt_spray",
                      "conductive", "space_grade"},
                     part.class_code \in DOMAIN ENV_CLASSES \union DOMAIN HERMETIC_CLASSES)
        /\ AllOrNone({"shell_code", "shell_size", "thread_size"},
                     part.shell_code \in DOMAIN SHELL_SIZES)
        /\ part.shell_code \in DOMAIN SHELL_SIZES =>
               /\ props.shell_size = SHELL_SIZES[part.shell_code].size
               /\ props.thread_size = SHELL_SIZES[part.shell_code].thread_size
        /\ AllOrNone({"dimensions"}, part.shell_code \in DOMAIN FamilyDimensions(part.series))
        /\ part.shell_code \in DOMAIN FamilyDimensions(part.series) =>
               props.dimensions = FamilyDimensions(part.series)[part.shell_code]
        /\ AllOrNone({"contact_count", "contact_size", "service_rating", "tooling"},
                     part.insert_arrangement \in DOMAIN INSERT_ARRANGEMENTS)
        /\ part.insert_arrangement \in DOMAIN INSERT_ARRANGEMENTS =>
               props.contact_count = INSERT_ARRANGEMENTS[part.insert_arrangement].contacts
        /\ AllOrNone({"contact_gender"}, part.contact_type \in DOMAIN CONTACT_TYPES)
        /\ part.contact_type \in DOMAIN CONTACT_TYPES =>
               props.contact_gender = CONTACT_TYPES[part.contact_type].type
        /\ AllOrNone({"polarization"}, part.polarization \in DOMAIN POLARIZATIONS)

\* get_properties returned for a part with an unknown shell code and known
\* class, arrangement and contact type
C3_Witness ==
    /\ props # EmptyDict
    /\ part.shell_code = "X"
    /\ "shell_size" \notin DOMAIN props
    /\ "dimensions" \notin DOMAIN props
    /\ {"finish", "contact_count", "contact_gender"} \subseteq DOMAIN props
    /\ props.finish = "Electroless Nickel"
    /\ props.contact_count = 6
    /\ props.contact_gender = "Pin"

\* the three cases of an insert-arrangement code
ArrangementCase(code) ==
    IF code \notin DOMAIN INSERT_ARRANGEMENTS THEN "unknown"
    ELSE IF "positions" \in DOMAIN INSERT_ARRANGEMENTS[code] THEN "layout"
    ELSE "count only"

\* the codes the cases are compared over: every key of the table, and the
\* codes of no table among the inputs
ArrangementCodes == DOMAIN INSERT_ARRANGEMENTS \union {Upper(c) : c \in InsertInputs}

\* the contact block of a get_properties result, without the echo of the
\* arrangement code
PropsContactBlock(p) ==
    [k \in DOMAIN p \intersect {"contact_count", "contact_size", "service_rating",
                                "contact_positions"} |-> p[k]]

\* the contact block of an attributes document, without the echo of the
\* arrangement code
AttributesContactBlock(a) ==
    [k \in DOMAIN a.contacts \ {"insert_arrangement"} |-> a.contacts[k]]

\* the part with another insert-arrangement code
WithArrangement(self, code) == [self EXCEPT !.insert_arrangement = code]

\* C6: the contact block of a part differs from the contact block of the
\* same part with any arrangement code of another case (unknown code, count
\* without positions, positions), in the result of get_properties and in
\* the attributes document.
C6_ThreeCasesDistinct ==
    (props # EmptyDict /\ attributes # EmptyDict) =>
        \A code \in ArrangementCodes :
            ArrangementCase(code) # ArrangementCase(part.insert_arrangement) =>
                /\ PropsContactBlock(get_properties(WithArrangement(part, code)))
                       # PropsContactBlock(props)
                /\ AttributesContactBlock(
                       create_attributes_json(WithArrangement(part, code),
                                              REVISION, RELEASE_STATUS))
                       # AttributesContactBlock(attributes)

\* both documents were built for a part whose arrangement has a count and
\* no positions
C6_Witness ==
    /\ props # EmptyDict
    /\ attributes # EmptyDict
    /\ part.insert_arrangement = "C35"
    /\ ArrangementCase(part.insert_arrangement) = "count only"

\* C7: for an arrangement with a count and no position list get_properties
\* yields contact_count and no contact_positions, and generate_svg returns
\* the no-position-data message, which is no drawing: neither the drawing
\* of this part with an empty contact list nor, for a part with positions,
\* what generate_svg returns.
C7_NoLayoutSignal ==
    (props # EmptyDict /\ svg # <<>>) =>
        /\ ArrangementCase(part.insert_arrangement) = "count only" =>
               /\ "contact_count" \in DOMAIN props
               /\ "contact_positions" \notin DOMAIN props
               /\ svg = NoPositionData
               /\ svg # Drawing(props @@ [contact_positions |-> <<>>])
        /\ ArrangementCase(part.insert_arrangement) = "layout" =>
               /\ svg # NoPositionData
               /\ svg = Drawing(props)

\* get_properties and generate_svg returned for a part of arrangement C35
C7_Witness ==
    /\ props # EmptyDict
    /\ svg = NoPositionData
    /\ part.insert_arrangement = "C35"
    /\ props.contact_count = 22

\* get_properties has returned
Resolved == props # EmptyDict

\* C11: the part (26, F, A, A35, P, N) builds "D38999/26FAA35PN", and its
\* specification has contact_count 6, contact_gender "Pin", finish
\* "Electroless Nickel", coupling_type "Triple-start thread" and series III.
C11_ScenarioValues ==
    (Constructed /\ codes = <<"26", "F", "A", "A35", "P", "N">>) =>
        /\ raised = NoException
        /\ build_part_number(part) = "D38999/26FAA35PN"
        /\ Resolved =>
               /\ props.part_number = "D38999/26FAA35PN"
               /\ props.contact_count = 6
               /\ props.contact_gender = "Pin"
               /\ props.finish = "Electroless Nickel"
               /\ props.coupling_type = "Triple-start thread"
               /\ props.series = "III"

\* get_properties has returned for the part (26, F, A, A35, P, N)
C11_Witness ==
    /\ codes = <<"26", "F", "A", "A35", "P", "N">>
    /\ Resolved
    /\ props.part_number = "D38999/26FAA35PN"

\* the tools of a tooling block
ToolsOf(block) == {block[k] : k \in DOMAIN block}

ClassEntryResolved(entry) ==
    /\ props.finish = entry.name
    /\ props.material = entry.material
    /\ props.temperature_range = Get(entry, "temp_range", "N/A")
    /\ props.salt_spray = Get(entry, "salt_spray", "N/A")
    /\ props.conductive = Get(entry, "conductive", FALSE)
    /\ props.space_grade = Get(entry, "space_grade", FALSE)

\* C13: no class code is a key of both ENV_CLASSES and HERMETIC_CLASSES,
\* and get_properties resolves a class code to the entry of the table that
\* holds it.
C13_ClassTablesDisjoint ==
    /\ DOMAIN ENV_CLASSES \intersect DOMAIN HERMETIC_CLASSES = {}
    /\ Resolved =>
           /\ part.class_code \in DOMAIN ENV_CLASSES =>
                  ClassEntryResolved(ENV_CLASSES[part.class_code])
           /\ part.class_code \in DOMAIN HERMETIC_CLASSES =>
                  ClassEntryResolved(HERMETIC_CLASSES[part.class_code])

\* get_properties has returned for a part of the hermetic class N
C13_Witness ==
    /\ Resolved
    /\ part.class_code = "N"
    /\ props.finish = "Electrodeposited Nickel (Hermetic)"

\* C14: the two series tables share no code, and a constructed part is of
\* family III exactly when its code is a key of SERIES_III and of family IV
\* exactly when it is a key of SERIES_IV, with that table's description.
C14_SeriesPartition ==
    /\ DOMAIN SERIES_III \intersect DOMAIN SERIES_IV = {}
    /\ (Constructed /\ raised = NoException) =>
           /\ part.series \in {"III", "IV"}
           /\ part.series = "III" <=> codes[1] \in DOMAIN SERIES_III
           /\ part.series = "IV" <=> codes[1] \in DOMAIN SERIES_IV
           /\ part.series = "III" => part.series_desc = SERIES_III[codes[1]]
           /\ part.series = "IV" => part.series_desc = SERIES_IV[codes[1]]

\* a part of series code 46 was constructed
C14_Witness ==
    /\ Constructed
    /\ codes[1] = "46"
    /\ part.series = "IV"
    /\ part.series_desc = "Plug without EMI ground spring"

\* another part with the codes of the constructed one, built by a call that
\* spells the codes in upper case
Twin ==
    D38999PartNumber(codes[1], Upper(codes[2]), Upper(codes[3]),
                     Upper(codes[4]), Upper(codes[5]), Upper(codes[6])).self

WithPolarization(self, code) == [self EXCEPT !.polarization = code]

\* the polarization codes parts are compared over: every key of the table,
\* and the codes of no table among the inputs
PolarizationCodes == DOMAIN POLARIZATIONS \union {Upper(c) : c \in PolarizationInputs}

\* a specification without its part number and polarization description
WithoutPolarization(p) == [k \in DOMAIN p \ {"part_number", "polarization"} |-> p[k]]

\* C20: the specification of a part and that of the same part with any
\* other polarization code have the same contact count, contact size,
\* service rating, contact positions and tooling; they differ at most in
\* the part number and the polarization description.
C20_PolarizationIndependent ==
    Resolved =>
        \A code \in PolarizationCodes :
            LET other == get_properties(WithPolarization(part, code))
            IN /\ WithoutPolarization(other) = WithoutPolarization(props)
               /\ \A k \in {"contact_count", "contact_size", "service_rating",
                            "contact_positions", "tooling"} :
                      /\ k \in DOMAIN other <=> k \in DOMAIN props
                      /\ k \in DOMAIN props => other[k] = props[k]
               /\ code # part.polarization => other.part_number # props.part_number

\* get_properties has returned for a part with positions, tooling and a
\* polarization other than the normal one
C20_Witness ==
    /\ Resolved
    /\ part.polarization = "K"
    /\ {"contact_positions", "tooling", "polarization"} \subseteq DOMAIN props

\* C17: after any interleaving of construction, build_part_number,
\* get_properties, generate_svg, generate_part_numbers, filter_parts and
\* get_summary calls, every reference table has its initial value.
C17_TablesUnchanged ==
    /\ tables = ClassTables
    /\ tables.SERIES_III = SERIES_III /\ tables.SERIES_IV = SERIES_IV
    /\ tables.ENV_CLASSES = ENV_CLASSES /\ tables.HERMETIC_CLASSES = HERMETIC_CLASSES
    /\ tables.SHELL_SIZES = SHELL_SIZES /\ tables.CONTACT_TYPES = CONTACT_TYPES
    /\ tables.INSERT_ARRANGEMENTS = INSERT_ARRANGEMENTS
    /\ tables.SERIES_III_DIMENSIONS = SERIES_III_DIMENSIONS
    /\ tables.SERIES_IV_DIMENSIONS = SERIES_IV_DIMENSIONS
    /\ tables.CRIMP_TOOLS = CRIMP_TOOLS

\* every one of the calls was made: on a part with a drawing, and on a
\* generator whose batch of four tuples is over
C17_Witness ==
    /\ Resolved
    /\ built # ""
    /\ svg # <<>> /\ svg # NoPositionData
    /\ pc = "done" /\ Len(args[1]) = 2
    /\ Len(filtered) = 1
    /\ summary # EmptyDict /\ summary # NoPartsGenerated
    /\ tables = ClassTables

\* C18: a consumer that changes the dimensions, tooling or
\* contact_positions block of a specification it was given changes no
\* table, and no later get_properties call: the attributes document, which
\* is built from such a call, has the dimensions of the table as the class
\* body set it.
C18_SpecificationOwned ==
    /\ tables = ClassTables
    /\ attributes # EmptyDict =>
           attributes.mechanical.dimensions =
               Get(FamilyDimensions(part.series), part.shell_code, EmptyDict)

\* C19: once a create_directories call is over, every part that this or an
\* earlier call counted as created or already_existed has its part
\* directory, and in it its revision directory with the attributes document
\* and the drawing document.
C19_CountedPartsComplete ==
    dir_pc = "done" =>
        \A entry \in counted :
            LET part_dir == Path(entry[1], entry[2])
                rev_dir == Path(part_dir, RevDirName(entry[2], REVISION))
            IN /\ part_dir \in fs
               /\ rev_dir \in fs
               /\ Path(rev_dir, AttributesFile(entry[2], REVISION)) \in fs
               /\ Path(rev_dir, DrawingFile(entry[2], REVISION)) \in fs

\* C21: for every contact-type code of CONTACT_TYPES the resolved
\* contact_gender is exactly "Pin" or "Socket", and the specification has a
\* mating-cycle count exactly for the codes P, S, H and J.
C21_GenderPinOrSocket ==
    (Resolved /\ part.contact_type \in DOMAIN CONTACT_TYPES) =>
        /\ props.contact_gender \in {"Pin", "Socket"}
        /\ "mating_cycles" \in DOMAIN props <=> part.contact_type \in {"P", "S", "H", "J"}

\* C23: shell size and thread size come from SHELL_SIZES alone, the
\* dimensions block from the dimension table of the part's series family
\* alone: a shell code of SHELL_SIZES missing from the family's table (A in
\* series IV) resolves with size and thread and without dimensions, and
\* where both tables have the code the two threads are equal.
C23_TwoShellLookups ==
    /\ \A table \in {SERIES_III_DIMENSIONS, SERIES_IV_DIMENSIONS} :
         \A c \in DOMAIN table \intersect DOMAIN SHELL_SIZES :
            table[c].thread = SHELL_SIZES[c].thread_size
    /\ Resolved =>
         /\ part.shell_code \in DOMAIN SHELL_SIZES =>
              /\ props.shell_size = SHELL_SIZES[part.shell_code].size
              /\ props.thread_size = SHELL_SIZES[part.shell_code].thread_size
         /\ "shell_size" \in DOMAIN props <=> part.shell_code \in DOMAIN SHELL_SIZES
         /\ "dimensions" \in DOMAIN props <=>
                part.shell_code \in DOMAIN FamilyDimensions(part.series)
         /\ "dimensions" \in DOMAIN props =>
              /\ props.dimensions = FamilyDimensions(part.series)[part.shell_code]
              /\ "thread_size" \in DOMAIN props =>
                    props.dimensions.thread = props.thread_size

\* shell A in series IV: size and thread resolved, no dimensions
C23_Witness ==
    /\ Resolved
    /\ part.series = "IV"
    /\ part.shell_code = "A"
    /\ props.shell_size = 9
    /\ props.thread_size = "M12"
    /\ "dimensions" \notin DOMAIN props

\* the labels of a position list, under the key the catalog uses
Labels(positions, key) == {positions[i][key] : i \in DOMAIN positions}

\* no label occurs twice in the list
DistinctLabels(positions, key) == Cardinality(Labels(positions, key)) = Len(positions)

\* C24: in every insert arrangement with an explicit position list, of
\* INSERT_ARRANGEMENTS of D38999PartNumber and of D38999Specs, the position
\* labels are pairwise distinct, and so are the labels of the position list
\* of a resolved specification.
C24_LabelsDistinct ==
    /\ \A a \in DOMAIN tables.INSERT_ARRANGEMENTS :
         "positions" \in DOMAIN tables.INSERT_ARRANGEMENTS[a] =>
            DistinctLabels(tables.INSERT_ARRANGEMENTS[a].positions, "label")
    /\ \A shell_size \in DOMAIN Specs_INSERT_ARRANGEMENTS :
         \A a \in DOMAIN Specs_INSERT_ARRANGEMENTS[shell_size] :
            DistinctLabels(Specs_INSERT_ARRANGEMENTS[shell_size][a].contacts, "pos")
    /\ (Resolved /\ "contact_positions" \in DOMAIN props) =>
            DistinctLabels(props.contact_positions, "label")

\* arrangement B35 resolved: thirteen positions, the labels A to M
C24_Witness ==
    /\ Resolved
    /\ part.insert_arrangement = "B35"
    /\ Len(props.contact_positions) = 13
    /\ Labels(props.contact_positions, "label") = {Chr(65 + i) : i \in 0..12}

\* C28: every insert arrangement of INSERT_ARRANGEMENTS with an explicit
\* position list declares as many contacts as the list has positions, and a
\* resolved specification's contact_count is the length of its
\* contact_positions.
C28_CountIsListLength ==
    /\ \A a \in DOMAIN tables.INSERT_ARRANGEMENTS :
         "positions" \in DOMAIN tables.INSERT_ARRANGEMENTS[a] =>
            tables.INSERT_ARRANGEMENTS[a].contacts
                = Len(tables.INSERT_ARRANGEMENTS[a].positions)
    /\ (Resolved /\ "contact_positions" \in DOMAIN props) =>
            props.contact_count = Len(props.contact_positions)

\* arrangement A35 resolved: six contacts, six positions
C28_Witness ==
    /\ Resolved
    /\ part.insert_arrangement = "A35"
    /\ props.contact_count = 6
    /\ Len(props.contact_positions) = 6

\* C26: in the statistics a finished create_directories call returns, every
\* generated part is counted in exactly one of created, already_existed and
\* failed: the three add up to total.
C26_CountsAddUp ==
    (dir_pc = "done" /\ "total" \in DOMAIN stats) =>
        stats.created + stats.already_existed + stats.failed = stats.total

\* C27: a create_directories call that repeats a call without failures (the
\* same base path, the same generated parts, the same revision) makes no
\* directory, writes no attributes document, drawing or README, and reports
\* created = 0 and already_existed = total.
C27_SecondCallIdempotent ==
    (dir_pc = "done" /\ prev # EmptyDict /\ prev.repeated) =>
        /\ touched = {}
        /\ stats.created = 0
        /\ stats.failed = 0
        /\ stats.already_existed = stats.total

\* a repeated call over two parts is over
C27_Witness ==
    /\ dir_pc = "done"
    /\ prev # EmptyDict
    /\ prev.repeated
    /\ stats.total = 2
    /\ stats.already_existed = 2

\* the part resolves without contact positions
NoPositions(self) == "contact_positions" \notin DOMAIN get_properties(self)

\* the drawing files of the generated parts without contact positions
FilesWithoutPositions ==
    {DrawingPath(BasePath(d), DirName(generated_parts[i])) :
        d \in DirInputs, i \in {j \in DOMAIN generated_parts : NoPositions(generated_parts[j])}}

\* a step outside create_directories leaves those files as they are
RenderingLeavesThem ==
    dir_pc # "loop" =>
        \A f \in FilesWithoutPositions :
            /\ f \in fs' <=> f \in fs
            /\ f \in DOMAIN content' <=> f \in DOMAIN content
            /\ f \in DOMAIN content => content'[f] = content[f]
            /\ touched' # touched => f \notin touched'

\* generate_svgs(populate_drawings=True) counted every part once, the parts
\* without positions as skipped
SkippedCounted ==
    "generated" \in DOMAIN svg_report =>
        /\ svg_report.generated + svg_report.skipped = Len(generated_parts)
        /\ svg_report.skipped >=
              Cardinality({i \in DOMAIN generated_parts : NoPositions(generated_parts[i])})

\* C25: for a part whose arrangement has no contact positions rendering
\* writes nothing: generate_svg(filename) and generate_svgs leave the part's
\* drawing file as it is, and generate_svgs(populate_drawings=True) counts
\* the part as skipped, generated plus skipped being the number of parts.
C25_NoPositionsNothingWritten == [][RenderingLeavesThem]_vars /\ []SkippedCounted

\* after generate_svgs(populate_drawings=True) over A35 and C35: one part
\* drawn, one skipped, and C35's drawing file still the placeholder
C25_Witness ==
    /\ Len(generated_parts) = 2
    /\ "generated" \in DOMAIN svg_report
    /\ svg_report.generated = 1
    /\ svg_report.skipped = 1
    /\ \E f \in FilesWithoutPositions :
          /\ f \in fs
          /\ content[f] = PlaceholderSvg(DirName(generated_parts[2]), REVISION)
    /\ content[DrawingPath(dir_base, DirName(generated_parts[1]))]
          = generate_svg(generated_parts[1])

\* str.strip() for the space character
RECURSIVE Strip(_)
Strip(s) ==
    IF Len(s) = 0 THEN s
    ELSE IF SubSeq(s, 1, 1) = " " THEN Strip(SubSeq(s, 2, Len(s)))
    ELSE IF SubSeq(s, Len(s), Len(s)) = " " THEN Strip(SubSeq(s, 1, Len(s) - 1))
    ELSE s

\* a code in upper case, without the whitespace around it
Normalized(code) == Upper(Strip(code))

\* C16: each of the six codes a part stores is the input code in upper
\* case without surrounding whitespace, and the series family is looked up
\* with the normalized series code: a call whose normalized series code is
\* a key of a series table builds the part.
C16_CodesNormalized ==
    Constructed =>
        /\ KnownSeries(Normalized(codes[1])) => raised = NoException
        /\ raised = NoException =>
               /\ part.series_code = Normalized(codes[1])
               /\ part.class_code = Normalized(codes[2])
               /\ part.shell_code = Normalized(codes[3])
               /\ part.insert_arrangement = Normalized(codes[4])
               /\ part.contact_type = Normalized(codes[5])
               /\ part.polarization = Normalized(codes[6])

---------------------------------------------------------------------------
(* Claims on generate_part_numbers, under SpecGenerator *)

\* the six codes of a descriptor
CodesOf(self) ==
    <<self.series_code, self.class_code, self.shell_code,
      self.insert_arrangement, self.contact_type, self.polarization>>

\* the six codes a descriptor built from the tuple holds
NormalizedTuple(tuple) ==
    <<tuple[1], Upper(tuple[2]), Upper(tuple[3]),
      Upper(tuple[4]), Upper(tuple[5]), Upper(tuple[6])>>

Accepted(tuple) == KnownSeries(tuple[1])
Rejected(tuple) == ~KnownSeries(tuple[1])

\* the tuples of the product the loop has gone through
Visited == SubSeq(Product(args), 1, ProductSize(args) - Len(combinations))

\* the tuple an entry of invalid_parts records
TupleOf(entry) ==
    <<entry.series, entry.class, entry.shell, entry.insert, entry.contact, entry.polarization>>

\* C4: a batch call goes through the whole cartesian product of its six
\* lists in product order: accepted plus rejected tuples make up the size
\* of the product, and generated_parts, which is also what the call
\* returns, holds the descriptors of exactly the accepted tuples of this
\* call, in product order.
C4_WholeProductInOrder ==
    /\ pc = "loop" =>
         /\ Len(generated_parts) + Len(invalid_parts) + Len(combinations) = ProductSize(args)
         /\ combinations = SubSeq(Product(args), Len(Visited) + 1, ProductSize(args))
         /\ [i \in DOMAIN generated_parts |-> CodesOf(generated_parts[i])]
              = LET accepted == SelectSeq(Visited, Accepted)
                IN [i \in DOMAIN accepted |-> NormalizedTuple(accepted[i])]
         /\ [i \in DOMAIN invalid_parts |-> TupleOf(invalid_parts[i])]
              = SelectSeq(Visited, Rejected)
    /\ pc = "done" =>
         /\ combinations = <<>>
         /\ returned = <<generated_parts>>
         /\ [i \in DOMAIN generated_parts |-> CodesOf(generated_parts[i])]
              = LET accepted == SelectSeq(Product(args), Accepted)
                IN [i \in DOMAIN accepted |-> NormalizedTuple(accepted[i])]
         /\ stdout[2] = "Generated " \o NatToStr(Len(generated_parts)) \o " valid part numbers"
         /\ Len(generated_parts) + Len(SelectSeq(Product(args), Rejected)) = ProductSize(args)

\* a finished call whose product mixes rejected and accepted tuples
C4_Witness ==
    /\ pc = "done"
    /\ args = << <<"99", "26">>, <<"f", "AA">>, <<"A">>, <<"C35", "ZZ">>, <<"P">>, <<"N", "N">> >>
    /\ Len(generated_parts) = 8
    /\ generated_parts[1].class_code = "F"
    /\ generated_parts[8].insert_arrangement = "ZZ"

\* what the caller holds once the call is over: the returned list and the
\* generator's generated_parts
CallerRecords ==
    {returned[1][i] : i \in DOMAIN returned[1]}
        \union {generated_parts[i] : i \in DOMAIN generated_parts}

\* C5: once a batch call is over, the caller holds, for every rejected
\* combination, a record of its tuple and of the reason.
C5_RejectsReported ==
    pc = "done" =>
        \A k \in 1..ProductSize(args) :
            LET tuple == Product(args)[k]
            IN Rejected(tuple) =>
                 \E record \in CallerRecords :
                     /\ "error" \in DOMAIN record
                     /\ TupleOf(record) = tuple
                     /\ record.error = ConstructTuple(tuple).exception.message

---------------------------------------------------------------------------
(* Claims on D38999Specs, under SpecParser *)

Parsed == parsed # EmptyDict
RoundTripped == Parsed /\ DOMAIN source # {}

\* C1: parsing the string a valid descriptor's build_part_number returns
\* succeeds and gives back the descriptor's codes.
C1_RoundTrip ==
    RoundTripped =>
        /\ parsed.exception.type = "None"
        /\ parsed.specs.part_number = build_part_number(source)
        /\ parsed.specs.insert_arrangement = source.insert_arrangement
        /\ parsed.specs.series \in {source.series_code, source.series}
        /\ {"class_code", "shell_code", "contact_type", "polarization"}
               \subseteq DOMAIN parsed.specs

\* the sizes of a contact list in order of first appearance
RECURSIVE DistinctSizes(_)
DistinctSizes(contact_list) ==
    IF contact_list = <<>> THEN <<>>
    ELSE LET before == DistinctSizes(SubSeq(contact_list, 1, Len(contact_list) - 1))
             last == contact_list[Len(contact_list)].size
         IN IF \E i \in DOMAIN before : before[i] = last
            THEN before ELSE Append(before, last)

ToolingCalled == tooling # <<>>

\* C8: the tooling list has exactly one entry per distinct contact size,
\* in the order in which the sizes first appear among the contacts, and
\* nothing else.
C8_OneEntryPerSize ==
    ToolingCalled =>
        LET sizes == DistinctSizes(contacts)
        IN /\ Len(tooling) = Len(sizes)
           /\ \A i \in DOMAIN sizes :
                 tooling[i] \in {Specs_CONTACT_SPECS[sizes[i]].crimp_tool,
                                 Specs_CONTACT_SPECS[sizes[i]].extraction_tool}

FormatError(text) == ValueError("Invalid part number format: " \o Upper(RemoveSpaces(text)))

DescriptorFieldsLen == 6

\* C10: a string with the right prefix and one '/' whose descriptor is too
\* short for its fields is rejected with the format error: no
\* specification is returned and no other error is raised.
C10_ShortDescriptorRejected ==
    Parsed =>
        LET parts == Split(Upper(RemoveSpaces(part_number)))
        IN (/\ Len(parts) = 2
            /\ parts[1] = "D38999"
            /\ Len(parts[2]) < DescriptorFieldsLen) =>
              /\ parsed.exception = FormatError(part_number)
              /\ parsed.specs = EmptyDict

\* the layout of the parser's catalog that a parsed contact list was made from
LayoutOf(specs) ==
    Specs_INSERT_ARRANGEMENTS[specs.shell_size][specs.insert_arrangement].contacts

\* C22: a polar position is converted with 0 degrees at the top and angles
\* growing clockwise, in _get_contacts as in generate_svg: a parsed contact
\* at angle 0 lies on the vertical through the centre (x = 0), one at angle
\* 90 on the horizontal through it, to the right (y = 0, x > 0).
C22_ParsedContactsFromTop ==
    (Parsed /\ parsed.exception.type = "None" /\ parsed.specs.contacts # <<>>) =>
        \A i \in DOMAIN parsed.specs.contacts :
            LET contact_def == LayoutOf(parsed.specs)[i]
                contact == parsed.specs.contacts[i]
            IN /\ contact_def.angle = 0 => contact.x = 0
               /\ contact_def.angle = 900 => (contact.y = 0 /\ contact.x > 0)

\* the key sets of the six reference tables, in the order of the codes
KeySets ==
    << DOMAIN SERIES_III \union DOMAIN SERIES_IV,
       DOMAIN ENV_CLASSES \union DOMAIN HERMETIC_CLASSES,
       DOMAIN SHELL_SIZES,
       DOMAIN INSERT_ARRANGEMENTS,
       DOMAIN CONTACT_TYPES,
       DOMAIN POLARIZATIONS >>

\* all six codes of the descriptor are keys of their tables
Keyed(self) == \A i \in DOMAIN KeySets : CodesOf(self)[i] \in KeySets[i]

\* every way to cut the string into one key of each set, in order: the
\* tuples of keys whose concatenation is the string
RECURSIVE Splits(_, _)
Splits(text, keysets) ==
    IF keysets = <<>>
    THEN IF text = "" THEN {<<>>} ELSE {}
    ELSE UNION { { <<k>> \o rest :
                     rest \in Splits(SubSeq(text, Len(k) + 1, Len(text)), Tail(keysets)) } :
                 k \in {key \in Head(keysets) : StartsWith(text, key)} }

\* C29: build_part_number is injective on the descriptors whose six codes
\* are keys of the reference tables: the only tuple of keys that builds the
\* part number of such a descriptor, or its directory name, is the tuple of
\* its own codes.
C29_PartNumberInjective ==
    (built # "" /\ Keyed(part)) =>
        /\ StartsWith(built, "D38999/")
        /\ Splits(SubSeq(built, Len("D38999/") + 1, Len(built)), KeySets) = {CodesOf(part)}
        /\ Splits(SubSeq(SlashToDash(built), Len("D38999-") + 1, Len(built)), KeySets)
              = {CodesOf(part)}

\* the part number of a descriptor with the two-character class and a
\* two-character insert arrangement
C29_Witness ==
    /\ built = "D38999/26AAAB2PN"
    /\ Keyed(part)
    /\ part.class_code = "AA"
    /\ part.insert_arrangement = "B2"

\* the sum of the counts of a breakdown
RECURSIVE SumOf(_)
SumOf(counts) ==
    IF DOMAIN counts = {} THEN 0
    ELSE LET k == CHOOSE key \in DOMAIN counts : TRUE
         IN counts[k] + SumOf([key \in DOMAIN counts \ {k} |-> counts[key]])

\* the number of tuples the most recent generate_part_numbers call accepted
AcceptedByLastCall ==
    IF pc = "idle" THEN 0 ELSE Len(SelectSeq(Product(args), Accepted))

\* C30: after any sequence of generate_part_numbers calls get_summary
\* reports total_parts equal to the number of parts the most recent call
\* accepted, each of its four breakdowns adds up to total_parts, and when
\* no part was accepted it returns the "No part numbers generated." message.
C30_SummaryOfLastCall ==
    summary # EmptyDict =>
        IF AcceptedByLastCall = 0
        THEN summary = NoPartsGenerated
        ELSE /\ summary # NoPartsGenerated
             /\ summary.total_parts = AcceptedByLastCall
             /\ SumOf(summary.series) = summary.total_parts
             /\ SumOf(summary.classes) = summary.total_parts
             /\ SumOf(summary.shell_sizes) = summary.total_parts
             /\ SumOf(summary.contact_types) = summary.total_parts

\* the summary of a batch with rejected tuples and with parts whose class,
\* shell and contact codes are unknown
C30_Witness ==
    /\ summary # EmptyDict
    /\ summary # NoPartsGenerated
    /\ summary.total_parts = 16
    /\ Len(SelectSeq(Product(args), Rejected)) = 8
    /\ summary.classes = ("Unknown" :> 8) @@ ("F" :> 8)
    /\ summary.series = ("III" :> 8) @@ ("IV" :> 8)
    /\ JString("Unknown") \in DOMAIN summary.shell_sizes
    /\ "Unknown" \in DOMAIN summary.contact_types
=============================================================================
